---- MODULE Spec2Model ----
(***************************************************************************)
(* Snapshot-diff engine of the Nitro Type leaderboard page.                *)
(*                                                                         *)
(* The page loads four snapshots (lean API feed before/now, rich Data feed *)
(* before/now) and one handler turns them into a list of rows.  The        *)
(* repository holds several variants of that handler:                      *)
(*   computeEvent               src/main.js          361-452               *)
(*   loadEventFourFiles         src/main.js          1011-1119             *)
(*   loadEventFourFiles (older) src/unnamed/part_000 518-597 (= 1064-1143) *)
(*   renderChanges24_fromAPI    src/main.js          266-314               *)
(*   renderChanges24            src/main.js          940-981               *)
(*   renderRacesPerDay          src/main.js          219-233 (= 898-908)   *)
(* One behaviour of the model is one page load: the snapshots are the      *)
(* input, one handler runs on them, and the rows it built are the output.  *)
(* A second specification, SpecLoad, is one call of the loader:            *)
(*   fetchJSONFlexible          src/main.js          96-125                *)
(*   fetchJSONFlexible          src/main.js          674-700               *)
(*                              (= src/unnamed/part_000 280-312, 873-904)  *)
(* The first script of src/unnamed/part_000 (lines 1-163) reads the sample *)
(* files with plain fetch and has none of these helpers; of it only        *)
(*   renderLeaderboard (older)  src/unnamed/part_000 51-75                 *)
(* is modelled, next to                                                    *)
(*   renderLeaderboard          src/main.js          162-207 (= 835-890)   *)
(*                                                                         *)
(* Numbers: JavaScript doubles are modelled as exact rationals n/d in      *)
(* lowest terms; a raw JSON field is a tagged value, so that safeNumber is *)
(* a real conversion.  Strings are drawn from a small alphabet on which    *)
(* toLowerCase and trim are tabulated.                                     *)
(***************************************************************************)
EXTENDS Integers, Sequences, FiniteSets, TLC

VARIABLES
    apiBefore,   \* lean feed, before snapshot (array after toArray)
    apiNow,      \* lean feed, now snapshot
    dataBefore,  \* rich feed, before snapshot (array after normalizeData)
    dataNow,     \* rich feed, now snapshot
    pc,          \* "loaded" | "done" | "again" | "listed" | "ranked"; "fetching" | "fetched" in SpecLoad
    variant,     \* which handler ran ("none" before it has run)
    rows,        \* the rows the handler produced, in output order
    visited,     \* one entry per run of the per-identifier callback, in order
    response,    \* what fetch(url) finds: a network error, or a status and a body
    allowEmpty,  \* the second argument of fetchJSONFlexible
    payload,     \* how the promise of fetchJSONFlexible settled
    loaded,      \* toArray of the fulfilled payload
    script,      \* SpecBoot: which DOMContentLoaded handler runs, "init" | "bootstrap"
    mainPc,      \* SpecBoot: where the handler's main flow stands
    fetches,     \* SpecBoot: the promise of every fetchJSONFlexible call, by slot
    eventPc,     \* SpecBoot: "idle" | "waiting" | "rendered" | "failed"
    eventStarts, \* SpecBoot: how many times initEventTab was called
    delta,       \* SpecParse: the number a delta cell shows
    minusSign,   \* the minus sign of the page's locale: "-" or U+2212
    parser,      \* SpecParse: which parseDelta ran ("none" before it has run)
    parsed,      \* SpecParse: what parseDelta returned
    tableId,     \* SpecRemove, SpecHide: the table that is followed
    tbody,       \* its rows in document order: rank cell, races cell, hidden class
    thAsc,       \* the header of its races column has the class asc
    utility,     \* which glitch-row script the page includes
    removed,     \* SpecRemove: the races values of the rows taken out of tbody
    threshold,   \* SpecHide: state.threshold
    enabled,     \* SpecHide: state.enabled
    counter,     \* SpecHide: the number shown after "Hidden:"
    frame,       \* SpecHide: a requestAnimationFrame(applyAll) is pending
    schedFrame,  \* SpecHide: the frame of scheduleApply is pending
    statsTimer,  \* SpecHide: setTimeout(updateStats, 0) is pending
    files,       \* SpecJob: what sample_data.json and sample_data_prev.json hold
    filesAtStart,\* SpecJob: files when the current or last run started
    jobPc,       \* SpecJob: "idle" | "fetching"
    lastRun,     \* SpecJob: "none" | "ok" | "failed"
    runs         \* SpecJob: how many runs have started

bootVars == <<script, mainPc, fetches, eventPc, eventStarts>>
parseVars == <<delta, minusSign, parser, parsed>>
domVars == <<tableId, tbody, thAsc, utility, removed>>
hideVars == <<threshold, enabled, counter, frame, schedFrame, statsTimer>>
jobVars == <<files, filesAtStart, jobPc, lastRun, runs>>
utilVars == <<parseVars, domVars, hideVars, jobVars>>

vars == <<apiBefore, apiNow, dataBefore, dataNow, pc, variant, rows, visited,
          response, allowEmpty, payload, loaded, bootVars, utilVars>>

---------------------------------------------------------------------------
(* Bounds of the model *)

\* largest total number of records over the four snapshots (key family)
MaxRecs == 3
\* largest value of a numeric field in the enumerated families
MaxVal == 2
\* largest number of lines of a fetched body
MaxLines == 3
\* largest small number a delta cell shows in SpecParse
MaxDelta == 12
\* largest number of rows of the table SpecRemove and SpecHide follow
MaxRows == 3

\* the runs of the rotation job that are followed
MaxRuns == 4

---------------------------------------------------------------------------
(* Program constants *)

MAX_24H_RACES == 2600
\* CONFIG.AVG_RACE_SECONDS = 28.47, in hundredths of a second
AVG_RACE_CENTISECONDS == 2847
EVENT_WPM_METHOD == "weighted"
WPM_METHOD == "weighted"
BAKE_ACCURACY_INTO_WPM == FALSE

---------------------------------------------------------------------------
(* Exact rational arithmetic standing for JavaScript numbers *)

Abs(x) == IF x < 0 THEN -x ELSE x

RECURSIVE GCD(_, _)
GCD(a, b) == IF b = 0 THEN a ELSE GCD(b, a % b)

\* the values of a division by zero: 0/0 and n/0
NaN == [t |-> "nan", n |-> 0, d |-> 1]
Infinity == [t |-> "inf", n |-> 0, d |-> 1]

\* the quotient n/d (d >= 0): the number in lowest terms, or what JavaScript
\* gives for a zero divisor
Mk(n, d) ==
    IF d = 0 THEN (IF n = 0 THEN NaN ELSE Infinity)
    ELSE LET g == GCD(Abs(n), d)
         IN  [t |-> "num", n |-> n \div g, d |-> d \div g]

RInt(i) == [t |-> "num", n |-> i, d |-> 1]
Null == [t |-> "null", n |-> 0, d |-> 1]

RAdd(a, b) == Mk(a.n * b.d + b.n * a.d, a.d * b.d)
RSub(a, b) == Mk(a.n * b.d - b.n * a.d, a.d * b.d)
RMul(a, b) == Mk(a.n * b.n, a.d * b.d)
\* a / b for b # 0
RDiv(a, b) ==
    IF b.n > 0 THEN Mk(a.n * b.d, a.d * b.n)
    ELSE Mk(-(a.n * b.d), a.d * (-(b.n)))
RLt(a, b) == a.n * b.d < b.n * a.d
RMax(a, b) == IF RLt(a, b) THEN b ELSE a
RMin(a, b) == IF RLt(b, a) THEN b ELSE a

\* Number.isFinite on a computed value: false for NaN, an infinity and null
isFinite(x) == x.t = "num"

Max(a, b) == IF a >= b THEN a ELSE b

---------------------------------------------------------------------------
(* Raw JSON values and records *)

\* a raw numeric field: a number, absent (undefined), null, or a string that
\* is not a number
Num(n) == [t |-> "num", v |-> n]
Undef == [t |-> "undef", v |-> 0]
JNull == [t |-> "null", v |-> 0]
NonNumeric == [t |-> "str", v |-> 0]

\* Number(x): Number(null) is 0, Number(undefined) and Number('abc') are NaN
toNumber(x) ==
    CASE x.t = "num" -> RInt(x.v)
      [] x.t = "null" -> RInt(0)
      [] OTHER -> NaN

\* safeNumber(x, dv = 0): Number(x) when finite, else the default 0
safeNumber(x) ==
    LET n == toNumber(x)
    IN  IF isFinite(n) THEN n.n ELSE 0

\* a record of the lean (API) feed; the strings "" stand for absent fields
LeanRec(u, dn, lr, ty, er, pl, aw) ==
    [username |-> u, displayName |-> dn, lifetimeRaces |-> lr, typed |-> ty,
     errs |-> er, played |-> pl, avgWpm |-> aw, highWpm |-> Undef]

\* a record of the rich (Data) feed
RichRec(u, rp, nu) ==
    [username |-> u, racesPlayed |-> rp, nitrosUsed |-> nu,
     highestSpeed |-> Undef, profileViews |-> Undef]

\* the object {} that the handlers substitute for a missing record
EmptyLean == LeanRec("", "", Undef, Undef, Undef, Undef, Undef)
EmptyRich == RichRec("", Undef, Undef)

\* String.prototype.toLowerCase on the alphabet of the model
toLowerCase(s) ==
    CASE s = "A" -> "a"
      [] s = "B" -> "b"
      [] OTHER -> s

\* String.prototype.trim on the alphabet of the model
trim(s) == IF s = " " THEN "" ELSE s

\* the last candidate that is not blank (the contrast case for C20)
pickFirstNonEmpty_PicksLast(arr, fallback) ==
    LET filled == {i \in 1..Len(arr) : trim(arr[i]) # ""}
    IN  IF filled = {} THEN fallback
        ELSE arr[CHOOSE i \in filled : \A j \in filled : j <= i]

\* pickFirstNonEmpty(arr, fallback): first candidate that is present and not
\* blank after trimming (an absent candidate is the string "")
RECURSIVE pickFirstNonEmpty(_, _)
pickFirstNonEmpty(arr, fallback) ==
    IF arr = <<>> THEN fallback
    ELSE IF trim(Head(arr)) # "" THEN Head(arr)
    ELSE pickFirstNonEmpty(Tail(arr), fallback)

\* clamp without its lower bound (the contrast case for C5)
clamp_NoLowerBound(min, v, max) == RMin(max, v)

\* clamp(min, v, max) = Math.max(min, Math.min(max, v))
clamp(min, v, max) == RMax(min, RMin(max, v))

---------------------------------------------------------------------------
(* Indexer *)

\* the key function every caller passes: String(o.username || '').toLowerCase()
keyOf(o) == toLowerCase(o.username)

\* an index in which the first record of a key wins (the contrast case for
\* C18)
indexByKey_FirstWins(arr) ==
    LET K(i) == toLowerCase(keyOf(arr[i]))
        firsts == {i \in 1..Len(arr) : K(i) # "" /\ \A j \in 1..(i - 1) : K(j) # K(i)}
    IN  [order |-> [n \in 1..Cardinality(firsts) |->
                       K(CHOOSE i \in firsts :
                             Cardinality({j \in firsts : j <= i}) = n)],
         at    |-> [k \in {K(i) : i \in firsts} |->
                       arr[CHOOSE i \in firsts : K(i) = k]]]

\* indexByKey(arr, keyFn): an object without prototype; order is the property
\* order Object.keys reports (first insertion), at is the stored record
RECURSIVE indexByKey(_)
indexByKey(arr) ==
    IF arr = <<>> THEN [order |-> <<>>, at |-> [x \in {} |-> EmptyLean]]
    ELSE LET out  == indexByKey(SubSeq(arr, 1, Len(arr) - 1))
             item == arr[Len(arr)]
             k    == toLowerCase(keyOf(item))
         IN  IF k = "" THEN out
             ELSE [order |-> IF k \in DOMAIN out.at THEN out.order
                             ELSE Append(out.order, k),
                   at    |-> [x \in (DOMAIN out.at) \cup {k} |->
                                 IF x = k THEN item ELSE out.at[x]]]

Has(idx, k) == k \in DOMAIN idx.at
Get(idx, k, empty) == IF Has(idx, k) THEN idx.at[k] ELSE empty

\* a key list that keeps repeated keys (the contrast case for C9)
newSet_KeepsRepeats(s) == s

\* new Set([...]) : the distinct elements in order of first occurrence
RECURSIVE newSet(_)
newSet(s) ==
    IF s = <<>> THEN <<>>
    ELSE LET front == newSet(SubSeq(s, 1, Len(s) - 1))
             x     == s[Len(s)]
         IN  IF \E i \in 1..Len(front) : front[i] = x THEN front
             ELSE Append(front, x)

\* the union of the keys of the four indexes, in iteration order
unionKeys(aB, aN, dB, dN) == newSet(aB.order \o aN.order \o dB.order \o dN.order)

\* the rows left in callback order (the contrast case for C13)
sortByRacesDesc_PushOrder(s) == s

\* rows.sort((a, b) => b.dRaces - a.dRaces): Array.prototype.sort is stable
RECURSIVE sortByRacesDesc(_)
sortByRacesDesc(s) ==
    IF Len(s) <= 1 THEN s
    ELSE LET rest == sortByRacesDesc(SubSeq(s, 1, Len(s) - 1))
             x    == s[Len(s)]
             j    == Cardinality({i \in 1..Len(rest) : rest[i].dRaces >= x.dRaces})
         IN  SubSeq(rest, 1, j) \o <<x>> \o SubSeq(rest, j + 1, Len(rest))

\* the rows of the callbacks that pushed one, in callback order
Pushed(results) ==
    LET Keep(r) == r.keep
        kept == SelectSeq(results, Keep)
    IN  [i \in 1..Len(kept) |-> kept[i].row]

\* the trace of callback runs: identifier and the race delta computed for it
Trace(keys, results) ==
    [i \in 1..Len(keys) |-> [key |-> keys[i], dRaces |-> results[i].dRaces]]

---------------------------------------------------------------------------
(* Period-metric calculator shared by the event handlers *)

\* typedDelta = Math.max(0, safeNumber(now.typed) - safeNumber(before.typed))
typedDeltaOf(apiB, apiN) == Max(0, safeNumber(apiN.typed) - safeNumber(apiB.typed))

\* errsDelta = Math.max(0, safeNumber(now.errs) - safeNumber(before.errs))
errsDeltaOf(apiB, apiN) == Max(0, safeNumber(apiN.errs) - safeNumber(apiB.errs))

\* playedDelta = safeNumber(now.played) - safeNumber(before.played)
playedDeltaOf(apiB, apiN) == safeNumber(apiN.played) - safeNumber(apiB.played)

\* the weighted sum without the before term (the contrast case for C3)
weightedNumerator_NowOnly(apiB, apiN) ==
    safeNumber(apiN.avgWpm) * safeNumber(apiN.played)

\* safeNumber(now.avgWpm) * safeNumber(now.played)
\*   - safeNumber(before.avgWpm) * safeNumber(before.played)
weightedNumerator(apiB, apiN) ==
    safeNumber(apiN.avgWpm) * safeNumber(apiN.played)
        - safeNumber(apiB.avgWpm) * safeNumber(apiB.played)

\* 100 + (wpm / 2) * (acc / 100)
pointsOf(wpm, acc) ==
    RAdd(RInt(100), RMul(RDiv(wpm, RInt(2)), RDiv(acc, RInt(100))))

---------------------------------------------------------------------------
(* computeEvent, src/main.js 361-452 *)

\* the race delta: the Data delta when both Data records exist and it is not
\* zero, else the API delta, which is 0 unless both API records exist
CE_dRaces(hasAPI, hasData, apiB, apiN, dataB, dataN) ==
    LET dataDelta == IF hasData
                     THEN safeNumber(dataN.racesPlayed) - safeNumber(dataB.racesPlayed)
                     ELSE 0
        apiDelta  == IF hasAPI
                     THEN safeNumber(apiN.lifetimeRaces) - safeNumber(apiB.lifetimeRaces)
                     ELSE 0
    IN  IF hasData /\ dataDelta # 0 THEN dataDelta ELSE apiDelta

\* the activity filter letting a zero delta through (the contrast case for C1)
CE_keep_KeepsZero(dRaces) == ~(dRaces < 0)

\* if (dRaces <= 0) return;
CE_keep(dRaces) == ~(dRaces <= 0)

\* the nitro delta without its floor at 0 (the contrast case for C8)
CE_nitrosDelta_NoFloor(hasData, dataB, dataN) ==
    IF hasData
    THEN RInt(safeNumber(dataN.nitrosUsed) - safeNumber(dataB.nitrosUsed))
    ELSE Null

\* nitrosDelta = hasData ? Math.max(0, now.nitrosUsed - before.nitrosUsed) : null
CE_nitrosDelta(hasData, dataB, dataN) ==
    IF hasData
    THEN RInt(Max(0, safeNumber(dataN.nitrosUsed) - safeNumber(dataB.nitrosUsed)))
    ELSE Null

\* the accuracy computed without the test typedDelta > 0; NaN and an infinity
\* pass through the arithmetic and through Math.min and Math.max, except
\* that Math.min(100, -Infinity) stays -Infinity and Math.max(0, .) makes
\* it 0 (the contrast case for C19)
CE_acc_Unguarded(hasAPI, typedDelta, errsDelta) ==
    IF ~hasAPI THEN Null
    ELSE LET q == Mk(errsDelta, typedDelta)
         IN  CASE q.t = "nan" -> NaN
               [] q.t = "inf" -> RInt(0)
               [] OTHER -> clamp(RInt(0), RMul(RInt(100), RSub(RInt(1), q)), RInt(100))

\* acc stays null unless both API records exist and typedDelta > 0
CE_acc(hasAPI, typedDelta, errsDelta) ==
    IF hasAPI /\ typedDelta > 0
    THEN clamp(RInt(0), RMul(RInt(100), RSub(RInt(1), Mk(errsDelta, typedDelta))), RInt(100))
    ELSE Null

\* the speed: weighted when the method is 'weighted' and playedDelta > 0;
\* otherwise the estimate from typed characters and the average race time
\* when typedDelta > 0, and the snapshot average as the last resort
CE_wpm(hasAPI, method, apiB, apiN, typedDelta, dRaces, acc) ==
    IF ~hasAPI THEN Null
    ELSE LET playedDelta == playedDeltaOf(apiB, apiN)
         IN  IF method = "weighted" /\ playedDelta > 0
             THEN LET wpm == Mk(weightedNumerator(apiB, apiN), playedDelta)
                  IN  IF ~isFinite(wpm) \/ RLt(wpm, RInt(0)) THEN RInt(0) ELSE wpm
             ELSE IF typedDelta > 0 /\ dRaces > 0
                  THEN LET minutes == RMul(Mk(AVG_RACE_CENTISECONDS, 6000), RInt(dRaces))
                           est     == RDiv(Mk(typedDelta, 5), minutes)
                       IN  IF method = "chars" /\ BAKE_ACCURACY_INTO_WPM /\ acc # Null
                           THEN RMul(est, RDiv(acc, RInt(100)))
                           ELSE est
                  ELSE RInt(safeNumber(apiN.avgWpm))

\* the score with a missing accuracy counted as 0 (the contrast case for C7)
CE_points_MissingAccIsZero(hasAPI, wpm, acc) ==
    IF hasAPI /\ wpm # Null
    THEN pointsOf(wpm, IF acc = Null THEN RInt(0) ELSE acc)
    ELSE Null

\* points is set only when both wpm and acc are not null
CE_points(hasAPI, wpm, acc) ==
    IF hasAPI /\ wpm # Null /\ acc # Null THEN pointsOf(wpm, acc) ELSE Null

\* one run of the keys.forEach callback
computeEventKey(k, aB, aN, dB, dN, method) ==
    LET apiB    == Get(aB, k, EmptyLean)
        apiN    == Get(aN, k, EmptyLean)
        dataB   == Get(dB, k, EmptyRich)
        dataN   == Get(dN, k, EmptyRich)
        hasAPI  == Has(aB, k) /\ Has(aN, k)
        hasData == Has(dB, k) /\ Has(dN, k)
        slug    == pickFirstNonEmpty(
                       <<dataN.username, dataB.username, apiN.username, apiB.username>>, k)
        displayName == pickFirstNonEmpty(
                       <<apiN.displayName, apiB.displayName, dataN.username,
                         dataB.username, slug>>, slug)
        dRaces  == CE_dRaces(hasAPI, hasData, apiB, apiN, dataB, dataN)
        typedDelta == typedDeltaOf(apiB, apiN)
        errsDelta  == errsDeltaOf(apiB, apiN)
        acc     == CE_acc(hasAPI, typedDelta, errsDelta)
        wpm     == CE_wpm(hasAPI, method, apiB, apiN, typedDelta, dRaces, acc)
    IN  [dRaces |-> dRaces,
         keep   |-> CE_keep(dRaces),
         row    |-> [slug |-> slug, displayName |-> displayName, dRaces |-> dRaces,
                     wpm |-> wpm, acc |-> acc,
                     points |-> CE_points(hasAPI, wpm, acc),
                     nitrosDelta |-> CE_nitrosDelta(hasData, dataB, dataN)]]

\* computeEvent with its rows array kept from the call before (the contrast
\* case for C21)
computeEvent_KeepsEarlierRows(apiBeforeArr, apiNowArr, dataBeforeArr, dataNowArr, method) ==
    LET aB   == indexByKey(apiBeforeArr)
        aN   == indexByKey(apiNowArr)
        dB   == indexByKey(dataBeforeArr)
        dN   == indexByKey(dataNowArr)
        keys == unionKeys(aB, aN, dB, dN)
        results == [i \in 1..Len(keys) |-> computeEventKey(keys[i], aB, aN, dB, dN, method)]
    IN  [rows    |-> sortByRacesDesc(rows \o Pushed(results)),
         visited |-> Trace(keys, results)]

computeEvent(apiBeforeArr, apiNowArr, dataBeforeArr, dataNowArr, method) ==
    LET aB   == indexByKey(apiBeforeArr)
        aN   == indexByKey(apiNowArr)
        dB   == indexByKey(dataBeforeArr)
        dN   == indexByKey(dataNowArr)
        keys == unionKeys(aB, aN, dB, dN)
        results == [i \in 1..Len(keys) |-> computeEventKey(keys[i], aB, aN, dB, dN, method)]
    IN  [rows    |-> sortByRacesDesc(Pushed(results)),
         visited |-> Trace(keys, results)]

---------------------------------------------------------------------------
(* loadEventFourFiles, src/main.js 1011-1119 *)

\* a missing record is {} here, so each delta is formed from safeNumber of
\* whatever is there
LF_dRaces(aB, aN, dB, dN) ==
    LET racesDeltaData == safeNumber(dN.racesPlayed) - safeNumber(dB.racesPlayed)
        racesDeltaAPI  == safeNumber(aN.lifetimeRaces) - safeNumber(aB.lifetimeRaces)
    IN  IF racesDeltaData # 0 THEN racesDeltaData ELSE racesDeltaAPI

\* if (dRaces <= 0) return;
LF_keep(dRaces) == ~(dRaces <= 0)

\* clamp(0, 100 * (1 - (typedDelta > 0 ? errsDelta / typedDelta : 0)), 100)
LF_acc(typedDelta, errsDelta) ==
    clamp(RInt(0),
          RMul(RInt(100),
               RSub(RInt(1), IF typedDelta > 0 THEN Mk(errsDelta, typedDelta) ELSE RInt(0))),
          RInt(100))

\* the speed without the fallback to the now average (the contrast case for C4)
LF_wpm_NoSnapshotFallback(method, aB, aN) ==
    LET playedDelta == playedDeltaOf(aB, aN)
        wpm == IF method = "weighted" /\ playedDelta > 0
               THEN Mk(weightedNumerator(aB, aN), playedDelta)
               ELSE RInt(0)
    IN  IF ~isFinite(wpm) \/ RLt(wpm, RInt(0)) THEN RInt(0) ELSE wpm

\* weighted by played when playedDelta > 0, else the now average; a negative
\* or non-finite value becomes 0
LF_wpm(method, aB, aN) ==
    LET playedDelta == playedDeltaOf(aB, aN)
        wpm == IF method = "weighted" /\ playedDelta > 0
               THEN Mk(weightedNumerator(aB, aN), playedDelta)
               ELSE RInt(safeNumber(aN.avgWpm))
    IN  IF ~isFinite(wpm) \/ RLt(wpm, RInt(0)) THEN RInt(0) ELSE wpm

LF_nitrosDelta(dB, dN) ==
    RInt(Max(0, safeNumber(dN.nitrosUsed) - safeNumber(dB.nitrosUsed)))

\* one run of the keys.forEach callback
loadEventFourFilesKey(k, apiB, apiN, dataB, dataN) ==
    LET aB == Get(apiB, k, EmptyLean)
        aN == Get(apiN, k, EmptyLean)
        dB == Get(dataB, k, EmptyRich)
        dN == Get(dataN, k, EmptyRich)
        slug == pickFirstNonEmpty(<<dN.username, dB.username, aN.username, aB.username>>, "")
        displayName == pickFirstNonEmpty(
                           <<aN.displayName, aB.displayName, dN.username, dB.username, slug>>, "")
        dRaces == LF_dRaces(aB, aN, dB, dN)
        typedDelta == typedDeltaOf(aB, aN)
        errsDelta  == errsDeltaOf(aB, aN)
        acc == LF_acc(typedDelta, errsDelta)
        wpm == LF_wpm(WPM_METHOD, aB, aN)
    IN  [dRaces |-> dRaces,
         keep   |-> LF_keep(dRaces),
         row    |-> [slug |-> slug, displayName |-> displayName, dRaces |-> dRaces,
                     wpm |-> wpm, acc |-> acc, points |-> pointsOf(wpm, acc),
                     mistakesPerRace |-> Mk(errsDelta, Max(1, dRaces)),
                     nitrosDelta |-> LF_nitrosDelta(dB, dN)]]

loadEventFourFiles(apiBeforeArr, apiNowArr, dataBeforeArr, dataNowArr) ==
    IF Len(apiBeforeArr) = 0
    THEN [rows |-> <<>>, visited |-> <<>>]
    ELSE LET apiB  == indexByKey(apiBeforeArr)
             apiN  == indexByKey(apiNowArr)
             dataB == indexByKey(dataBeforeArr)
             dataN == indexByKey(dataNowArr)
             keys  == unionKeys(apiB, apiN, dataB, dataN)
             results == [i \in 1..Len(keys) |->
                            loadEventFourFilesKey(keys[i], apiB, apiN, dataB, dataN)]
         IN  [rows    |-> sortByRacesDesc(Pushed(results)),
              visited |-> Trace(keys, results)]

---------------------------------------------------------------------------
(* loadEventFourFiles, src/unnamed/part_000 518-597 (and again 1064-1143) *)

\* clamp(0, 100 * (typedDelta > 0 ? (1 - (errsDelta / typedDelta)) : 0), 100)
P0_acc(typedDelta, errsDelta) ==
    clamp(RInt(0),
          RMul(RInt(100),
               IF typedDelta > 0 THEN RSub(RInt(1), Mk(errsDelta, typedDelta)) ELSE RInt(0)),
          RInt(100))

P0_loadEventFourFilesKey(k, apiB, apiN, dataB, dataN) ==
    LET aB == Get(apiB, k, EmptyLean)
        aN == Get(apiN, k, EmptyLean)
        dB == Get(dataB, k, EmptyRich)
        dN == Get(dataN, k, EmptyRich)
        slug == pickFirstNonEmpty(<<dN.username, dB.username, aN.username, aB.username>>, "")
        displayName == pickFirstNonEmpty(
                           <<aN.displayName, aB.displayName, dN.username, dB.username, slug>>, "")
        dRaces == LF_dRaces(aB, aN, dB, dN)
    IN  [dRaces |-> dRaces,
         keep   |-> LF_keep(dRaces),
         row    |-> [slug |-> slug, displayName |-> displayName, dRaces |-> dRaces,
                     wpm |-> LF_wpm(WPM_METHOD, aB, aN),
                     acc |-> P0_acc(typedDeltaOf(aB, aN), errsDeltaOf(aB, aN)),
                     viewsDelta |-> RInt(Max(0, safeNumber(dN.profileViews)
                                                  - safeNumber(dB.profileViews))),
                     nitrosDelta |-> LF_nitrosDelta(dB, dN)]]

P0_loadEventFourFiles(apiBeforeArr, apiNowArr, dataBeforeArr, dataNowArr) ==
    LET apiB  == indexByKey(apiBeforeArr)
        apiN  == indexByKey(apiNowArr)
        dataB == indexByKey(dataBeforeArr)
        dataN == indexByKey(dataNowArr)
        keys  == unionKeys(apiB, apiN, dataB, dataN)
        results == [i \in 1..Len(keys) |->
                       P0_loadEventFourFilesKey(keys[i], apiB, apiN, dataB, dataN)]
    IN  [rows    |-> sortByRacesDesc(Pushed(results)),
         visited |-> Trace(keys, results)]

---------------------------------------------------------------------------
(* The loader: fetchJSONFlexible and toArray.                               *)
(* A body is a sequence of lines over a small alphabet of line texts, on   *)
(* which trim, the first character and JSON.parse are tabulated.           *)

LineA     == "{\"username\":\"a\",\"lifetimeRaces\":1}"
LineB     == "  {\"username\":\"b\",\"lifetimeRaces\":2}  "
LineBTrim == "{\"username\":\"b\",\"lifetimeRaces\":2}"
LineCut   == "{\"username\":"
LineBad   == "oops"
LineArr   == "[{\"username\":\"a\",\"lifetimeRaces\":1}]"
LineWrap  == "{\"racers\":[{\"username\":\"b\",\"lifetimeRaces\":2}]}"
LineBlank == "   "

LineTexts == {LineA, LineB, LineCut, LineBad, LineArr, LineWrap, LineBlank, ""}

RecA == LeanRec("a", "", Num(1), Undef, Undef, Undef, Undef)
RecB == LeanRec("b", "", Num(2), Undef, Undef, Undef, Undef)

\* JSON values: an entity record is a LeanRec; an array; an object with racers
JArr(items) == [items |-> items]
JRacers(racers) == [racers |-> racers]
isArray(v) == "items" \in DOMAIN v
hasRacersArray(v) == "racers" \in DOMAIN v
\* { racers: [] }
EmptySnapshot == JRacers(<<>>)

\* l.trim()
trimLine(l) ==
    CASE l = LineB -> LineBTrim
      [] l = LineBlank -> ""
      [] OTHER -> l

\* trimmed[0]
firstChar(l) ==
    CASE l \in {LineA, LineBTrim, LineCut, LineWrap} -> "{"
      [] l = LineArr -> "["
      [] l = LineBad -> "o"
      [] OTHER -> ""

\* JSON.parse of one trimmed line: the value, or a SyntaxError
Thrown == [thrown |-> TRUE]
Returned(v) == [thrown |-> FALSE, value |-> v]

parseLine(l) ==
    CASE l = LineA -> Returned(RecA)
      [] l = LineBTrim -> Returned(RecB)
      [] l = LineArr -> Returned(JArr(<<RecA>>))
      [] l = LineWrap -> Returned(JRacers(<<RecB>>))
      [] OTHER -> Thrown

\* trimmed.split(/\r?\n/).map(l => l.trim()).filter(Boolean)
nonBlankLines(lines) ==
    LET NotEmpty(l) == l # ""
    IN  SelectSeq([i \in 1..Len(lines) |-> trimLine(lines[i])], NotEmpty)

\* JSON.parse(trimmed) of the whole body.  White space between the tokens of
\* a document is insignificant, and no two texts of the alphabet join to one
\* document, so the body parses exactly when it has one non-blank line and
\* that line parses.
parseWhole(lines) ==
    LET nb == nonBlankLines(lines)
    IN  IF Len(nb) = 1 THEN parseLine(nb[1]) ELSE Thrown

\* arr.push(JSON.parse(line)) for every line that parses
RECURSIVE parsedLines(_)
parsedLines(nb) ==
    IF nb = <<>> THEN <<>>
    ELSE LET r == parseLine(Head(nb))
         IN  (IF r.thrown THEN <<>> ELSE <<r.value>>) \o parsedLines(Tail(nb))

\* res.ok
resOk(status) == status \in 200..299

\* how an async function settles
Pending == [state |-> "pending"]
Fulfilled(v) == [state |-> "fulfilled", value |-> v]
Rejected == [state |-> "rejected"]

\* the outer catch: if (allowEmpty) return { racers: [] }; throw e;
settle(r, allowEmptyArg) ==
    IF ~r.thrown THEN Fulfilled(r.value)
    ELSE IF allowEmptyArg THEN Fulfilled(EmptySnapshot)
    ELSE Rejected

\* fetchJSONFlexible, src/main.js 96-125: strict JSON first, then the lines
fetchJSONFlexible(resp, allowEmptyArg) ==
    LET nb    == nonBlankLines(resp.lines)
        whole == parseWhole(resp.lines)
        arr   == parsedLines(nb)
        body  ==
            IF resp.net = "error" THEN Thrown
            ELSE IF ~resOk(resp.status)
                 THEN IF allowEmptyArg /\ resp.status \in {404, 204}
                      THEN Returned(EmptySnapshot) ELSE Thrown
            ELSE IF nb = <<>>
                 THEN IF allowEmptyArg THEN Returned(EmptySnapshot)
                      ELSE Returned(JArr(<<>>))
            ELSE IF ~whole.thrown THEN whole
            ELSE IF Len(arr) > 0 THEN Returned(JArr(arr))
            ELSE IF allowEmptyArg THEN Returned(EmptySnapshot)
            ELSE Thrown
    IN  settle(body, allowEmptyArg)

\* fetchJSONFlexible, src/main.js 674-700 (and src/unnamed/part_000 280-312,
\* 873-904): the first character decides between one document and lines
fetchJSONFlexible2(resp, allowEmptyArg) ==
    LET nb    == nonBlankLines(resp.lines)
        body  ==
            IF resp.net = "error" THEN Thrown
            ELSE IF ~resOk(resp.status)
                 THEN IF allowEmptyArg /\ resp.status \in {404, 204}
                      THEN Returned(EmptySnapshot) ELSE Thrown
            ELSE IF nb = <<>>
                 THEN IF allowEmptyArg THEN Returned(EmptySnapshot) ELSE Thrown
            ELSE IF firstChar(nb[1]) \in {"{", "["} THEN parseWhole(resp.lines)
            ELSE Returned(JArr(parsedLines(nb)))
    IN  settle(body, allowEmptyArg)

\* toArray, src/main.js 135-139 (and 711-715)
toArray(maybeArray) ==
    IF isArray(maybeArray) THEN maybeArray.items
    ELSE IF hasRacersArray(maybeArray) THEN maybeArray.racers
    ELSE <<>>

---------------------------------------------------------------------------
(* The two-snapshot daily diff *)

\* the filter with the cutoff itself let through (the contrast case for C11)
dailyKeep_CutoffKept(dRaces) == dRaces # 0 /\ dRaces <= MAX_24H_RACES

\* d.dRaces !== 0 && d.dRaces < MAX_24H_RACES
dailyKeep(dRaces) == dRaces # 0 /\ dRaces < MAX_24H_RACES

\* renderChanges24_fromAPI, src/main.js 266-314: one run of the callback
renderChanges24_fromAPIKey(k, aB, aN) ==
    LET b == Get(aB, k, EmptyLean)
        n == Get(aN, k, EmptyLean)
        dRaces == safeNumber(n.lifetimeRaces) - safeNumber(b.lifetimeRaces)
        dTop   == safeNumber(n.highWpm) - safeNumber(b.highWpm)
    IN  [dRaces |-> dRaces,
         keep   |-> dailyKeep(dRaces),
         row    |-> [slug |-> IF n.username # "" THEN n.username ELSE b.username,
                     dRaces |-> dRaces, dTop |-> dTop, dViews |-> 0, dNitro |-> 0]]

renderChanges24_fromAPI(apiBeforeArr, apiNowArr) ==
    LET aB   == indexByKey(apiBeforeArr)
        aN   == indexByKey(apiNowArr)
        keys == newSet(aB.order \o aN.order)
        results == [i \in 1..Len(keys) |-> renderChanges24_fromAPIKey(keys[i], aB, aN)]
    IN  [rows    |-> sortByRacesDesc(Pushed(results)),
         visited |-> Trace(keys, results)]

\* new Map(previous.racers.map(r => [String(r.username || '').toLowerCase(), r])),
\* src/main.js 638-639: the last record of a key wins, the key '' included
prevMapOf(previous) ==
    [k \in {keyOf(previous[i]) : i \in 1..Len(previous)} |->
        previous[CHOOSE i \in 1..Len(previous) :
                    /\ keyOf(previous[i]) = k
                    /\ \A j \in (i + 1)..Len(previous) : keyOf(previous[j]) # k]]

\* buildDisplayNameMap(apiNowArray), src/main.js 717-725
buildDisplayNameMap(apiNowArray) ==
    LET named == {i \in 1..Len(apiNowArray) :
                     keyOf(apiNowArray[i]) # "" /\ trim(apiNowArray[i].displayName) # ""}
    IN  [k \in {keyOf(apiNowArray[i]) : i \in named} |->
            trim(apiNowArray[CHOOSE i \in named :
                    /\ keyOf(apiNowArray[i]) = k
                    /\ \A j \in named : j > i => keyOf(apiNowArray[j]) # k].displayName)]

\* renderChanges24, src/main.js 940-981: the map callback on one current record
renderChanges24Rec(r, prevMap, displayNameMap) ==
    LET key == keyOf(r)
        p   == IF key \in DOMAIN prevMap THEN prevMap[key] ELSE EmptyRich
        dRaces == safeNumber(r.racesPlayed) - safeNumber(p.racesPlayed)
    IN  [key    |-> key,
         dRaces |-> dRaces,
         keep   |-> dailyKeep(dRaces),
         row    |-> [slug |-> r.username,
                     displayName |-> IF key \in DOMAIN displayNameMap
                                     THEN displayNameMap[key] ELSE r.username,
                     dRaces |-> dRaces,
                     dTop   |-> safeNumber(r.highestSpeed) - safeNumber(p.highestSpeed),
                     dViews |-> safeNumber(r.profileViews) - safeNumber(p.profileViews),
                     dNitros |-> safeNumber(r.nitrosUsed) - safeNumber(p.nitrosUsed)]]

renderChanges24(currentRacers, prevMap, displayNameMap) ==
    LET Active(r) == safeNumber(r.racesPlayed) > 0
        filtered == SelectSeq(currentRacers, Active)
        results  == [i \in 1..Len(filtered) |->
                        renderChanges24Rec(filtered[i], prevMap, displayNameMap)]
    IN  [rows    |-> sortByRacesDesc(Pushed(results)),
         visited |-> [i \in 1..Len(filtered) |->
                         [key |-> results[i].key, dRaces |-> results[i].dRaces]]]

---------------------------------------------------------------------------
(* Races per day, renderRacesPerDay (src/main.js 219-233 and 898-908).      *)
(* A join date is read as the number of whole days it lies before the time *)
(* of the call; a missing or unparsable one makes parseLocalDate return    *)
(* new Date(), an instant at or just after that time.                      *)

JoinedDaysAgo(d) == [t |-> "date", v |-> d]

\* r.joinDate, undefined when the record has no such field
joinDateOf(r) == IF "joinDate" \in DOMAIN r THEN r.joinDate ELSE Undef

\* Math.floor((now - parseLocalDate(r.joinDate).getTime()) / 86400000); lag is
\* that value for new Date(): 0, or -1 when the clock has ticked
elapsedDays(input, lag) == IF input.t = "date" THEN input.v ELSE lag

\* total / Math.max(1, elapsed)
perDayOf(total, elapsed) == Mk(total, Max(1, elapsed))

\* the map callback on one record
renderRacesPerDayRec(r, lag) ==
    LET elapsed == elapsedDays(joinDateOf(r), lag)
        total   == safeNumber(r.racesPlayed)
    IN  [slug |-> r.username, total |-> total, days |-> Max(1, elapsed),
         perDay |-> perDayOf(total, elapsed)]

\* .sort((a, b) => b.perDay - a.perDay)
RECURSIVE sortByPerDayDesc(_)
sortByPerDayDesc(s) ==
    IF Len(s) <= 1 THEN s
    ELSE LET rest == sortByPerDayDesc(SubSeq(s, 1, Len(s) - 1))
             x    == s[Len(s)]
             j    == Cardinality({i \in 1..Len(rest) : ~RLt(rest[i].perDay, x.perDay)})
         IN  SubSeq(rest, 1, j) \o <<x>> \o SubSeq(rest, j + 1, Len(rest))

renderRacesPerDay(data, lag) ==
    sortByPerDayDesc([i \in 1..Len(data) |-> renderRacesPerDayRec(data[i], lag)])

---------------------------------------------------------------------------
(* Lifetime leaderboard                                                    *)

\* .sort((a, b) => b.racesPlayed - a.racesPlayed) on records whose
\* racesPlayed is a finite number: stable, most races first
RECURSIVE sortByRacesPlayedDesc(_)
sortByRacesPlayedDesc(s) ==
    IF Len(s) <= 1 THEN s
    ELSE LET rest == sortByRacesPlayedDesc(SubSeq(s, 1, Len(s) - 1))
             x    == s[Len(s)]
             j    == Cardinality({i \in 1..Len(rest) :
                         safeNumber(rest[i].racesPlayed) >= safeNumber(x.racesPlayed)})
         IN  SubSeq(rest, 1, j) \o <<x>> \o SubSeq(rest, j + 1, Len(rest))

\* renderLeaderboard (src/main.js 162-207): copies the records into new
\* objects, sorts the copy, numbers the rows
renderLeaderboard(data) ==
    LET list == sortByRacesPlayedDesc(
                    [i \in 1..Len(data) |->
                        [username |-> data[i].username,
                         racesPlayed |-> Num(safeNumber(data[i].racesPlayed))]])
    IN  [i \in 1..Len(list) |->
            [slug |-> list[i].username, total |-> list[i].racesPlayed.v, rank |-> i]]

\* the orders Array.prototype.sort can leave an array in
Reorderings(s) ==
    {[i \in 1..Len(s) |-> s[p[i]]] :
        p \in {q \in [1..Len(s) -> 1..Len(s)] : \A i, j \in 1..Len(s) : q[i] = q[j] => i = j}}

\* data.sort((a, b) => b.racesPlayed - a.racesPlayed) of the older
\* renderLeaderboard (src/unnamed/part_000 53), on the raw field: with only
\* numbers the order is the stable descending one; a difference that is NaN
\* makes the comparator inconsistent and the order implementation-defined
P0_sortInPlace(data) ==
    IF \A i \in 1..Len(data) : isFinite(toNumber(data[i].racesPlayed))
    THEN {sortByRacesPlayedDesc(data)}
    ELSE Reorderings(data)

\* the rows the older renderLeaderboard appends before r.racesPlayed
\* .toLocaleString() or r.nitrosUsed.toLocaleString() throws on a field that
\* is undefined or null (src/unnamed/part_000 53-74)
RECURSIVE P0_rendered(_, _)
P0_rendered(data, i) ==
    IF i > Len(data) THEN <<>>
    ELSE IF data[i].racesPlayed.t \in {"undef", "null"} \/ data[i].nitrosUsed.t \in {"undef", "null"}
         THEN <<>>
         ELSE <<[slug |-> data[i].username, total |-> data[i].racesPlayed.v, rank |-> i]>>
                  \o P0_rendered(data, i + 1)

---------------------------------------------------------------------------
(* The snapshots a page load can find.  Any file content is possible; the  *)
(* model enumerates five families of it.                                   *)

SeqsUpTo(S, n) == UNION {[1..m -> S] : m \in 0..n}

\* Key family: up to MaxRecs records over the four snapshots, with names that
\* collide by case, an empty name, and a second identifier
KeyNames == {<<"a", 1>>, <<"A", 2>>, <<"b", 1>>, <<"b", 3>>, <<"", 1>>}
KeyLean == {LeanRec(p[1], "", Num(p[2]), Undef, Undef, Undef, Undef) : p \in KeyNames}
KeyRich == {RichRec(p[1], Num(p[2]), Undef) : p \in KeyNames}

InitKeys ==
    /\ apiBefore \in SeqsUpTo(KeyLean, MaxRecs)
    /\ apiNow \in SeqsUpTo(KeyLean, MaxRecs - Len(apiBefore))
    /\ dataBefore \in SeqsUpTo(KeyRich, MaxRecs - Len(apiBefore) - Len(apiNow))
    /\ dataNow \in SeqsUpTo(KeyRich,
                            MaxRecs - Len(apiBefore) - Len(apiNow) - Len(dataBefore))

\* Race family: one identifier, each of its four records present or not,
\* race and nitro counters over 0..MaxVal
OptLean == {<<>>} \cup {<<LeanRec("a", "", Num(v), Undef, Undef, Undef, Undef)>> :
                           v \in 0..MaxVal}
OptRich == {<<>>} \cup {<<RichRec("a", Num(v), Num(w))>> : v, w \in 0..MaxVal}

InitRaces ==
    /\ apiBefore \in OptLean
    /\ apiNow \in OptLean
    /\ dataBefore \in OptRich
    /\ dataNow \in OptRich

\* Speed family: both lean records, played over 0..MaxVal and avgWpm over
\* 0..MaxVal + 1 (so that a drop of the average can outweigh a rise of the
\* race count), the before record without typed, errs and lifetimeRaces
InitSpeed ==
    /\ apiBefore \in {<<LeanRec("a", "", Undef, Undef, Undef, Num(pl), Num(aw))>> :
                         pl \in 0..MaxVal, aw \in 0..(MaxVal + 1)}
    /\ apiNow \in {<<LeanRec("A", "Ann", Num(lr), ty, er, Num(pl), Num(aw))>> :
                      lr \in 1..MaxVal, ty \in {Undef, Num(MaxVal)},
                      er \in {Undef, Num(1)}, pl \in 0..MaxVal, aw \in 0..(MaxVal + 1)}
    /\ dataBefore = <<>>
    /\ dataNow = <<>>

\* Accuracy family: both lean records, typed and errs over 0..MaxVal
InitAccuracy ==
    /\ apiBefore \in {<<LeanRec("a", "", Num(0), Num(ty), Num(er), Undef, Undef)>> :
                         ty, er \in 0..MaxVal}
    /\ apiNow \in {<<LeanRec("a", "", Num(1), Num(ty), Num(er), Undef, Num(MaxVal))>> :
                      ty, er \in 0..MaxVal}
    /\ dataBefore = <<>>
    /\ dataNow \in {<<>>, <<RichRec("a", Num(1), Undef)>>}

\* The worked examples of the specification: races 100 -> 150, speed 80 over
\* 10 races -> 100 over 30 races, 1000 characters typed with 50 errors
InitExample ==
    /\ apiBefore = <<LeanRec("a", "", Num(100), Num(0), Num(0), Num(10), Num(80))>>
    /\ apiNow = <<LeanRec("a", "", Num(150), Num(1000), Num(50), Num(30), Num(100))>>
    /\ dataBefore = <<RichRec("a", Num(100), Num(7))>>
    /\ dataNow = <<RichRec("a", Num(150), Num(9))>>

\* Dirty family: one identifier with all four records, the numeric fields
\* and the join date missing, null, not numeric, or a number
DirtyLeanNow ==
    {LeanRec("a", "", lr, ty, er, pl, aw) :
        lr \in {JNull, Num(MaxVal)}, ty \in {NonNumeric, Num(MaxVal)},
        er \in {Undef, Num(1)}, pl \in {JNull, Num(MaxVal)},
        aw \in {NonNumeric, Num(MaxVal)}}
DirtyLeanBefore ==
    {LeanRec("a", "", x, x, x, x, x) : x \in {Undef, JNull, NonNumeric, Num(1)}}
JoinDates ==
    {Undef, JNull, NonNumeric} \cup {JoinedDaysAgo(d) : d \in (0 - 1)..MaxVal}
DirtyRichNow ==
    {RichRec("a", rp, nu) @@ [joinDate |-> jd] :
        rp \in {Undef, Num(MaxVal)}, nu \in {JNull, Num(1)}, jd \in JoinDates}

InitDirty ==
    /\ apiBefore \in {<<r>> : r \in DirtyLeanBefore}
    /\ apiNow \in {<<r>> : r \in DirtyLeanNow}
    /\ dataBefore \in {<<>>, <<RichRec("a", Undef, NonNumeric)>>}
    /\ dataNow \in {<<r>> : r \in DirtyRichNow}

\* Name family: one identifier spelled "a" or "A", each of its four records
\* present or not, the display names empty, blank or filled
NamedLean(names, races) ==
    {<<>>} \cup {<<LeanRec(u, dn, Num(races), Undef, Undef, Undef, Undef)>> :
                    u \in {"a", "A"}, dn \in names}
NamedRich(races) ==
    {<<>>} \cup {<<RichRec(u, Num(races), Undef)>> : u \in {"a", "A"}}

InitNames ==
    /\ apiBefore \in NamedLean({"", " ", "Bob"}, 0)
    /\ apiNow \in NamedLean({"", " ", "Ann"}, 1)
    /\ dataBefore \in NamedRich(0)
    /\ dataNow \in NamedRich(1)

\* the snapshots are given: the loader is not part of the behaviour
NoFetch ==
    /\ response = [net |-> "none", status |-> 0, lines |-> <<>>]
    /\ allowEmpty = FALSE
    /\ payload = Pending
    /\ loaded = <<>>

\* no bootstrap is followed
NoBoot ==
    /\ script = "none"
    /\ mainPc = "idle"
    /\ fetches = <<>>
    /\ eventPc = "idle"
    /\ eventStarts = 0

\* no call of parseDelta is followed
NoParse ==
    /\ delta = 0
    /\ parser = "none"
    /\ parsed = NaN

\* no table is followed
NoDom ==
    /\ tableId = "none"
    /\ tbody = <<>>
    /\ thAsc = FALSE
    /\ utility = "none"
    /\ removed = {}

\* the hide script is not on the page
NoHide ==
    /\ threshold = 0
    /\ enabled = FALSE
    /\ counter = 0
    /\ frame = FALSE
    /\ schedFrame = FALSE
    /\ statsTimer = FALSE

\* the rotation job is not followed
NoJob ==
    /\ files = <<>>
    /\ filesAtStart = <<>>
    /\ jobPc = "idle"
    /\ lastRun = "none"
    /\ runs = 0

\* no glitch-row script and no rotation job is followed
NoUtil ==
    /\ minusSign = "-"
    /\ NoParse
    /\ NoDom
    /\ NoHide
    /\ NoJob

\* Threshold family: identifiers "a" and "b", the same race counts in the
\* lean and the rich feed, the now counts small or around MAX_24H_RACES
CountsNearCutoff == (0..MaxVal) \cup ((MAX_24H_RACES - 1)..(MAX_24H_RACES + MaxVal - 1))

InitThreshold ==
    \E b1 \in 0..MaxVal : \E n1, n2 \in CountsNearCutoff :
        /\ apiBefore = <<LeanRec("a", "", Num(b1), Undef, Undef, Undef, Undef),
                         LeanRec("b", "", Num(0), Undef, Undef, Undef, Undef)>>
        /\ apiNow = <<LeanRec("a", "", Num(n1), Undef, Undef, Undef, Undef),
                      LeanRec("b", "", Num(n2), Undef, Undef, Undef, Undef)>>
        /\ dataBefore = <<RichRec("a", Num(b1), Undef), RichRec("b", Num(0), Undef)>>
        /\ dataNow = <<RichRec("a", Num(n1), Undef), RichRec("b", Num(n2), Undef)>>

Init ==
    /\ \/ InitKeys
       \/ InitRaces
       \/ InitSpeed
       \/ InitAccuracy
       \/ InitExample
       \/ InitThreshold
       \/ InitDirty
       \/ InitNames
    /\ pc = "loaded"
    /\ variant = "none"
    /\ rows = <<>>
    /\ visited = <<>>
    /\ NoFetch
    /\ NoBoot
    /\ NoUtil

---------------------------------------------------------------------------
(* The handlers *)

Finish(name, result) ==
    /\ pc = "loaded"
    /\ pc' = "done"
    /\ variant' = name
    /\ rows' = result.rows
    /\ visited' = result.visited
    /\ UNCHANGED <<apiBefore, apiNow, dataBefore, dataNow>>
    /\ UNCHANGED <<response, allowEmpty, payload, loaded, bootVars, utilVars>>

\* initEventTab (src/main.js 325-359) once the four fetches have settled
RunComputeEvent ==
    Finish("computeEvent",
           computeEvent(apiBefore, apiNow, dataBefore, dataNow, EVENT_WPM_METHOD))

\* initEventTab (src/main.js 986-1009)
RunLoadEventFourFiles ==
    Finish("loadEventFourFiles",
           loadEventFourFiles(apiBefore, apiNow, dataBefore, dataNow))

\* initEventTab (src/unnamed/part_000 256-274)
RunLoadEventFourFilesP0 ==
    Finish("loadEventFourFilesP0",
           P0_loadEventFourFiles(apiBefore, apiNow, dataBefore, dataNow))

\* init (src/main.js 74-82)
RunRenderChanges24FromAPI ==
    Finish("renderChanges24_fromAPI", renderChanges24_fromAPI(apiBefore, apiNow))

\* bootstrap (src/main.js 618-644): the Data snapshots are current and previous
RunRenderChanges24 ==
    Finish("renderChanges24",
           renderChanges24(dataNow, prevMapOf(dataBefore), buildDisplayNameMap(apiNow)))

\* init (src/main.js 67) and bootstrap (src/main.js 641): the leaderboard of
\* the current rich snapshot
RunRenderLeaderboard ==
    /\ pc = "loaded"
    /\ pc' = "ranked"
    /\ variant' = "renderLeaderboard"
    /\ rows' = renderLeaderboard(dataNow)
    /\ visited' = <<>>
    /\ UNCHANGED <<apiBefore, apiNow, dataBefore, dataNow>>
    /\ UNCHANGED <<response, allowEmpty, payload, loaded, bootVars, utilVars>>

\* the older page (src/unnamed/part_000 32): renderLeaderboard is handed
\* current.racers itself and sorts it
RunRenderLeaderboardP0 ==
    \E sorted \in P0_sortInPlace(dataNow) :
        /\ pc = "loaded"
        /\ pc' = "ranked"
        /\ variant' = "renderLeaderboardP0"
        /\ dataNow' = sorted
        /\ rows' = P0_rendered(sorted, 1)
        /\ visited' = <<>>
        /\ UNCHANGED <<apiBefore, apiNow, dataBefore>>
        /\ UNCHANGED <<response, allowEmpty, payload, loaded, bootVars, utilVars>>

\* computeEvent called once more on the snapshots as they are after the
\* first call (a reload of the event tab, src/main.js 342)
RunComputeEventAgain ==
    LET result == computeEvent(apiBefore, apiNow, dataBefore, dataNow, EVENT_WPM_METHOD)
    IN  /\ pc = "done"
        /\ variant = "computeEvent"
        /\ pc' = "again"
        /\ rows' = result.rows
        /\ visited' = result.visited
        /\ UNCHANGED <<variant, apiBefore, apiNow, dataBefore, dataNow>>
        /\ UNCHANGED <<response, allowEmpty, payload, loaded, bootVars, utilVars>>

\* init (src/main.js 69-70) and bootstrap (src/main.js 642): the Data now
\* snapshot listed by races per day
RunRenderRacesPerDay ==
    \E lag \in {0, 0 - 1} :
        /\ pc = "loaded"
        /\ pc' = "listed"
        /\ variant' = "renderRacesPerDay"
        /\ rows' = renderRacesPerDay(dataNow, lag)
        /\ visited' = <<>>
        /\ UNCHANGED <<apiBefore, apiNow, dataBefore, dataNow>>
        /\ UNCHANGED <<response, allowEmpty, payload, loaded, bootVars, utilVars>>

Next ==
    \/ RunComputeEvent
    \/ RunLoadEventFourFiles
    \/ RunLoadEventFourFilesP0
    \/ RunRenderChanges24FromAPI
    \/ RunRenderChanges24
    \/ RunRenderRacesPerDay
    \/ RunComputeEventAgain
    \/ RunRenderLeaderboard
    \/ RunRenderLeaderboardP0

Spec == Init /\ [][Next]_vars

---------------------------------------------------------------------------
(* Loading one source.  One behaviour is one call of fetchJSONFlexible on   *)
(* one response, followed by toArray as in init (src/main.js 74-79).       *)

Bodies == UNION {[1..m -> LineTexts] : m \in 0..MaxLines}

\* a network error, a status without a readable body, or 200 with a body
Responses ==
    {[net |-> "error", status |-> 0, lines |-> <<>>]}
        \cup {[net |-> "ok", status |-> st, lines |-> <<>>] : st \in {204, 404, 500}}
        \cup {[net |-> "ok", status |-> 200, lines |-> b] : b \in Bodies}

InitLoad ==
    /\ response \in Responses
    /\ allowEmpty \in BOOLEAN
    /\ payload = Pending
    /\ loaded = <<>>
    /\ apiBefore = <<>>
    /\ apiNow = <<>>
    /\ dataBefore = <<>>
    /\ dataNow = <<>>
    /\ pc = "fetching"
    /\ variant = "none"
    /\ rows = <<>>
    /\ visited = <<>>
    /\ NoBoot
    /\ NoUtil

Settle(name, p) ==
    /\ pc = "fetching"
    /\ pc' = "fetched"
    /\ variant' = name
    /\ payload' = p
    /\ loaded' = IF p.state = "fulfilled" THEN toArray(p.value) ELSE <<>>
    /\ UNCHANGED <<response, allowEmpty>>
    /\ UNCHANGED <<apiBefore, apiNow, dataBefore, dataNow, rows, visited, bootVars, utilVars>>

\* src/main.js 96-125
RunFetchJSONFlexible ==
    Settle("fetchJSONFlexible", fetchJSONFlexible(response, allowEmpty))

\* src/main.js 674-700
RunFetchJSONFlexible2 ==
    Settle("fetchJSONFlexible2", fetchJSONFlexible2(response, allowEmpty))

NextLoad ==
    \/ RunFetchJSONFlexible
    \/ RunFetchJSONFlexible2

SpecLoad == InitLoad /\ [][NextLoad]_vars

---------------------------------------------------------------------------
(* One bootstrap of the page.  SpecBoot follows one of the two             *)
(* DOMContentLoaded handlers of src/main.js, init (61-91) or the           *)
(* Promise.all chain (613-669), from its first fetch to the event table.   *)
(* The snapshot variables hold what the four event files contain.          *)

\* the four fetchJSONFlexible calls of initEventTab
EventSlots == {"apiBefore", "apiNow", "dataBefore", "dataNow"}

\* every fetchJSONFlexible call of a handler: three of init (64, 75-76) or
\* three of the Promise.all chain (614-616), and the four of initEventTab
Slots == {"DATA_NOW", "API_BEFORE", "API_NOW", "cur", "prev", "enrich"} \cup EventSlots

NotStarted == [state |-> "idle", value |-> <<>>]
InFlight == [state |-> "pending", value |-> <<>>]
Arrived(v) == [state |-> "fulfilled", value |-> v]
Failed == [state |-> "rejected", value |-> <<>>]

\* what the event file of a slot contains
FileOf(s) ==
    CASE s = "apiBefore" -> apiBefore
      [] s = "apiNow" -> apiNow
      [] s = "dataBefore" -> dataBefore
      [] OTHER -> dataNow

\* how the fetchJSONFlexible call of a slot can settle: every call but that
\* of sample_data.json passes allowEmpty = true and so never rejects; it
\* yields the records of the file or, for a file that is missing or
\* unreadable, none
Outcomes(s) ==
    IF s \in EventSlots THEN {Arrived(FileOf(s)), Arrived(<<>>)}
    ELSE IF s = "cur" THEN {Arrived(<<>>), Failed}
    ELSE {Arrived(<<>>)}

\* a combinator that is fulfilled by the first fulfilled promise (the
\* contrast case for C23)
PromiseAll_FirstFulfilled(f, S) ==
    IF \E s \in S : f[s].state = "fulfilled" THEN "fulfilled"
    ELSE IF \E s \in S : f[s].state = "rejected" THEN "rejected"
    ELSE "pending"

\* Promise.all over the promises of the slots S: rejected with the first
\* rejection, fulfilled when every promise is
PromiseAll(f, S) ==
    IF \E s \in S : f[s].state = "rejected" THEN "rejected"
    ELSE IF \A s \in S : f[s].state = "fulfilled" THEN "fulfilled"
    ELSE "pending"

\* the rows initEventTab renders from the four awaited values: computeEvent
\* in the first handler (src/main.js 342), loadEventFourFiles in the second
\* (src/main.js 987)
EventRows(f) ==
    IF script = "init"
    THEN computeEvent(f["apiBefore"].value, f["apiNow"].value,
                      f["dataBefore"].value, f["dataNow"].value, EVENT_WPM_METHOD).rows
    ELSE loadEventFourFiles(f["apiBefore"].value, f["apiNow"].value,
                            f["dataBefore"].value, f["dataNow"].value).rows

InitBoot ==
    /\ InitExample
    /\ NoFetch
    /\ pc = "boot"
    /\ variant = "none"
    /\ rows = <<>>
    /\ visited = <<>>
    /\ script \in {"init", "bootstrap"}
    /\ mainPc = IF script = "init" THEN "awaitData" ELSE "awaitAll"
    /\ fetches = [s \in Slots |->
                     IF s = "DATA_NOW" /\ script = "init" THEN InFlight
                     ELSE IF s \in {"cur", "prev", "enrich"} /\ script = "bootstrap"
                          THEN InFlight
                     ELSE NotStarted]
    /\ eventPc = "idle"
    /\ eventStarts = 0
    /\ NoUtil

\* a call of initEventTab: the four fetches start together
\* (src/main.js 330-335, 1013-1018)
CallInitEventTab(f) ==
    /\ eventStarts' = eventStarts + 1
    /\ eventPc' = "waiting"
    /\ fetches' = [s \in Slots |-> IF s \in EventSlots THEN InFlight ELSE f[s]]

\* the network answers one pending fetch
SettleFetch ==
    \E s \in Slots : \E out \in Outcomes(s) :
        /\ fetches[s].state = "pending"
        /\ fetches' = [fetches EXCEPT ![s] = out]
        /\ UNCHANGED <<script, mainPc, eventPc, eventStarts>>
        /\ UNCHANGED <<apiBefore, apiNow, dataBefore, dataNow, pc, variant, rows, visited>>
        /\ UNCHANGED <<response, allowEmpty, payload, loaded, utilVars>>

\* init, src/main.js 64-74: after the main snapshot has arrived the
\* leaderboard and the races-per-day table are rendered, then the two API
\* fetches start; a render that throws lands in the catch (88-89)
InitRenderTables ==
    \E throws \in BOOLEAN :
        /\ script = "init"
        /\ mainPc = "awaitData"
        /\ fetches["DATA_NOW"].state = "fulfilled"
        /\ IF throws
           THEN /\ mainPc' = "caught"
                /\ CallInitEventTab(fetches)
           ELSE /\ mainPc' = "awaitApi"
                /\ fetches' = [fetches EXCEPT !["API_BEFORE"] = InFlight,
                                              !["API_NOW"] = InFlight]
                /\ UNCHANGED <<eventPc, eventStarts>>
        /\ UNCHANGED <<script, apiBefore, apiNow, dataBefore, dataNow, pc, variant, rows, visited>>
        /\ UNCHANGED <<response, allowEmpty, payload, loaded, utilVars>>

\* init, src/main.js 74-89: after both API snapshots the daily table is
\* rendered and initEventTab is awaited, in the try or in the catch
InitRenderChanges ==
    \E throws \in BOOLEAN :
        /\ script = "init"
        /\ mainPc = "awaitApi"
        /\ PromiseAll(fetches, {"API_BEFORE", "API_NOW"}) = "fulfilled"
        /\ mainPc' = IF throws THEN "caught" ELSE "finished"
        /\ CallInitEventTab(fetches)
        /\ UNCHANGED <<script, apiBefore, apiNow, dataBefore, dataNow, pc, variant, rows, visited>>
        /\ UNCHANGED <<response, allowEmpty, payload, loaded, utilVars>>

\* the then callback of the second handler, src/main.js 618-649: the three
\* tables are rendered and initEventTab is called last; a render that
\* throws lands in the catch (650-665), which calls it too
BootstrapThen ==
    \E throws \in BOOLEAN :
        /\ script = "bootstrap"
        /\ mainPc = "awaitAll"
        /\ PromiseAll(fetches, {"cur", "prev", "enrich"}) = "fulfilled"
        /\ mainPc' = IF throws THEN "caught" ELSE "finished"
        /\ CallInitEventTab(fetches)
        /\ UNCHANGED <<script, apiBefore, apiNow, dataBefore, dataNow, pc, variant, rows, visited>>
        /\ UNCHANGED <<response, allowEmpty, payload, loaded, utilVars>>

\* a catch that reports the error and leaves the event tab alone (the
\* contrast case for C24)
BootstrapCatch_ReportsOnly ==
    /\ script = "bootstrap"
    /\ mainPc = "awaitAll"
    /\ PromiseAll(fetches, {"cur", "prev", "enrich"}) = "rejected"
    /\ mainPc' = "caught"
    /\ UNCHANGED <<fetches, eventPc, eventStarts>>
    /\ UNCHANGED <<script, apiBefore, apiNow, dataBefore, dataNow, pc, variant, rows, visited>>
    /\ UNCHANGED <<response, allowEmpty, payload, loaded, utilVars>>

\* the catch of the second handler, src/main.js 650-665, on a rejected
\* Promise.all: the error is reported and initEventTab is called
BootstrapCatch ==
    /\ script = "bootstrap"
    /\ mainPc = "awaitAll"
    /\ PromiseAll(fetches, {"cur", "prev", "enrich"}) = "rejected"
    /\ mainPc' = "caught"
    /\ CallInitEventTab(fetches)
    /\ UNCHANGED <<script, apiBefore, apiNow, dataBefore, dataNow, pc, variant, rows, visited>>
    /\ UNCHANGED <<response, allowEmpty, payload, loaded, utilVars>>

\* initEventTab after its await (src/main.js 337-358, 988-1008): the rows
\* are computed from the four values and rendered, or an error thrown on
\* the way is caught inside and the table is cleared
EventCompute ==
    \E throws \in BOOLEAN :
        /\ eventPc = "waiting"
        /\ PromiseAll(fetches, EventSlots) = "fulfilled"
        /\ eventPc' = IF throws THEN "failed" ELSE "rendered"
        /\ rows' = IF throws THEN <<>> ELSE EventRows(fetches)
        /\ UNCHANGED <<script, mainPc, fetches, eventStarts>>
        /\ UNCHANGED <<apiBefore, apiNow, dataBefore, dataNow, pc, variant, visited>>
        /\ UNCHANGED <<response, allowEmpty, payload, loaded, utilVars>>

NextBoot ==
    \/ SettleFetch
    \/ InitRenderTables
    \/ InitRenderChanges
    \/ BootstrapThen
    \/ BootstrapCatch
    \/ EventCompute

SpecBoot == InitBoot /\ [][NextBoot]_vars

\* every pending fetch is answered and every callback of the main flow that
\* is ready runs; nothing is assumed of the event computation itself
SpecBootFair ==
    /\ SpecBoot
    /\ WF_vars(SettleFetch)
    /\ WF_vars(InitRenderTables)
    /\ WF_vars(InitRenderChanges)
    /\ WF_vars(BootstrapThen)
    /\ WF_vars(BootstrapCatch)

---------------------------------------------------------------------------
(* The glitch-row scripts: src/removeGlitchedRacers.js and its variant     *)
(* src/unnamed/part_003 take rows out of the tables, src/unnamed/part_002  *)
(* hides them.  They read the cells main.js has written, so a cell is      *)
(* modelled as the sequence of characters formatDeltaInt or toLocaleString *)
(* produces, and parseDelta works on those characters.  SpecParse is one   *)
(* call of parseDelta on the text of a delta cell.                         *)

THRESHOLD == 2600

\* U+2212, the minus sign Number.prototype.toLocaleString writes in the
\* locales whose number format uses it (sv, nb, fi, ...)
MINUS == "U+2212"

DigitChars == <<"0", "1", "2", "3", "4", "5", "6", "7", "8", "9">>
isDigit(ch) == \E i \in 1..10 : DigitChars[i] = ch
digitValue(ch) == (CHOOSE i \in 1..10 : DigitChars[i] = ch) - 1

\* the decimal digits of n >= 0
RECURSIVE digitsOf(_)
digitsOf(n) ==
    IF n < 10 THEN <<DigitChars[n + 1]>>
    ELSE digitsOf(n \div 10) \o <<DigitChars[(n % 10) + 1]>>

\* n.toLocaleString() for an integer n >= 0: groups of three digits
RECURSIVE grouped(_)
grouped(n) ==
    IF n < 1000 THEN digitsOf(n)
    ELSE grouped(n \div 1000) \o <<",">>
             \o <<DigitChars[((n % 1000) \div 100) + 1],
                  DigitChars[((n % 100) \div 10) + 1],
                  DigitChars[(n % 10) + 1]>>

\* v.toLocaleString() for an integer v, in a locale with the given minus sign
toLocaleString(v, minus) ==
    IF v < 0 THEN <<minus>> \o grouped(-v) ELSE grouped(v)

\* formatDeltaInt, src/main.js 566-570 (and 769-772)
formatDeltaInt(v, minus) ==
    (IF v > 0 THEN <<"+">> ELSE <<>>) \o toLocaleString(v, minus)

\* the number a digit string denotes
RECURSIVE valueOf(_)
valueOf(digs) ==
    IF digs = <<>> THEN 0
    ELSE valueOf(SubSeq(digs, 1, Len(digs) - 1)) * 10 + digitValue(digs[Len(digs)])

\* parseInt(cleaned, 10) on a string of digits and "-": an optional sign,
\* then the longest run of digits; NaN when there is no digit there
parseInt(cleaned) ==
    LET neg  == cleaned # <<>> /\ cleaned[1] = "-"
        body == IF neg THEN Tail(cleaned) ELSE cleaned
        k    == Cardinality({i \in 1..Len(body) : \A j \in 1..i : isDigit(body[j])})
    IN  IF k = 0 THEN NaN
        ELSE RInt((IF neg THEN -1 ELSE 1) * valueOf(SubSeq(body, 1, k)))

\* .replace(/[^\d-]/g, '')
keepDigitsAndHyphen(text) ==
    LET Kept(ch) == isDigit(ch) \/ ch = "-"
    IN  SelectSeq(text, Kept)

\* parseDelta, src/removeGlitchedRacers.js 20-27: strips "+" and U+2212,
\* then everything but digits and "-"
parseDelta(text) ==
    LET NotSign(ch) == ch \notin {"+", MINUS}
        cleaned == keepDigitsAndHyphen(SelectSeq(text, NotSign))
    IN  IF cleaned = <<>> THEN NaN ELSE parseInt(cleaned)

\* parseDelta, src/unnamed/part_003 20-27: U+2212 becomes "-"
P3_parseDelta(text) ==
    LET cleaned == keepDigitsAndHyphen(
                       [i \in 1..Len(text) |-> IF text[i] = MINUS THEN "-" ELSE text[i]])
    IN  IF cleaned = <<>> THEN NaN ELSE parseInt(cleaned)

\* parseDelta, src/unnamed/part_002 58-63
P2_parseDelta(text) ==
    LET cleaned == keepDigitsAndHyphen(text)
    IN  IF cleaned = <<>> THEN NaN ELSE parseInt(cleaned)

\* the engine of the page is not followed
NoEngine ==
    /\ apiBefore = <<>>
    /\ apiNow = <<>>
    /\ dataBefore = <<>>
    /\ dataNow = <<>>
    /\ pc = "off"
    /\ variant = "none"
    /\ rows = <<>>
    /\ visited = <<>>
    /\ NoFetch
    /\ NoBoot

engineVars == <<apiBefore, apiNow, dataBefore, dataNow, pc, variant, rows, visited,
                response, allowEmpty, payload, loaded, bootVars>>

\* the numbers a delta cell of SpecParse shows: the small ones, the examples
\* of the scripts' comments, and those around the threshold
DeltaValues ==
    ((0 - MaxDelta)..MaxDelta)
        \cup {0 - 1234, 36099, 0 - (THRESHOLD + 1), THRESHOLD, THRESHOLD + 1}

InitParse ==
    /\ delta \in DeltaValues
    /\ minusSign \in {"-", MINUS}
    /\ parser = "none"
    /\ parsed = NaN
    /\ NoDom
    /\ NoHide
    /\ NoJob
    /\ NoEngine

Parse(name, result) ==
    /\ parser = "none"
    /\ parser' = name
    /\ parsed' = result
    /\ UNCHANGED <<delta, minusSign, domVars, hideVars, jobVars, engineVars>>

\* src/removeGlitchedRacers.js 85
RunParseDelta == Parse("parseDelta", parseDelta(formatDeltaInt(delta, minusSign)))

\* src/unnamed/part_003 72
RunP3ParseDelta == Parse("P3_parseDelta", P3_parseDelta(formatDeltaInt(delta, minusSign)))

\* src/unnamed/part_002 114
RunP2ParseDelta == Parse("P2_parseDelta", P2_parseDelta(formatDeltaInt(delta, minusSign)))

NextParse ==
    \/ RunParseDelta
    \/ RunP3ParseDelta
    \/ RunP2ParseDelta

SpecParse == InitParse /\ [][NextParse]_vars

---------------------------------------------------------------------------
(* SpecRemove: one table of the page, the header of its races column, and  *)
(* one of the two removing scripts.  The table has been rendered; then the *)
(* user clicks the header and the script's filterTable runs (from the      *)
(* retry interval or from the mutation observer) in any order.             *)

Tables == {"leaderboardTable", "changes24Table", "eventTable"}

\* the words of the data-label (and of the header) of the races column:
\* "Total Races" (src/main.js 198) or, with DELTA for the Greek letter,
\* "DELTA Total Races" (src/main.js 304, 471)
racesLabel(id) ==
    IF id = "leaderboardTable" THEN <<"Total", "Races">>
    ELSE <<"DELTA", "Total", "Races">>

\* the substring test of [data-label*="..."] and of /total races/i
contains(label, words) ==
    \E i \in 0..(Len(label) - Len(words)) : SubSeq(label, i + 1, i + Len(words)) = words

\* the text of the races cell of a row
cellText(id, row, minus) ==
    IF id = "leaderboardTable" THEN toLocaleString(row.races, minus)
    ELSE formatDeltaInt(row.races, minus)

\* the races values the rows of the model show
RacesValues == {0 - (THRESHOLD + 1), 0 - 1, 0, 1, THRESHOLD, THRESHOLD + 1}

\* those a table can show: lifetime totals are not negative, the daily
\* table keeps what dailyKeep keeps, the event table what CE_keep keeps
ShownIn(id) ==
    CASE id = "leaderboardTable" -> {v \in RacesValues : v >= 0}
      [] id = "changes24Table" -> {v \in RacesValues : dailyKeep(v)}
      [] OTHER -> {v \in RacesValues : CE_keep(v)}

\* the lists a renderer writes: most races first
RenderedLists(id) ==
    {l \in SeqsUpTo(ShownIn(id), MaxRows) :
        \A i, j \in 1..Len(l) : i < j => l[i] >= l[j]}

\* the forEach of a renderer (src/main.js 189-207, 300-312, 462-477)
renderRows(l) == [i \in 1..Len(l) |-> [rank |-> i, races |-> l[i], hidden |-> FALSE]]

\* enableSorting, src/main.js 501-504: the number read from a cell
sortNumber(text) == parseInt(keepDigitsAndHyphen(text))

\* rows.sort of enableSorting (src/main.js 500-507); every races cell has a
\* digit, so the comparison is always the numeric one
RECURSIVE sortByCell(_, _, _, _)
sortByCell(trs, id, minus, asc) ==
    IF Len(trs) <= 1 THEN trs
    ELSE LET rest == sortByCell(SubSeq(trs, 1, Len(trs) - 1), id, minus, asc)
             x    == trs[Len(trs)]
             K(r) == sortNumber(cellText(id, r, minus)).n
             j    == Cardinality({i \in 1..Len(rest) :
                         IF asc THEN K(rest[i]) <= K(x) ELSE K(rest[i]) >= K(x)})
         IN  SubSeq(rest, 1, j) \o <<x>> \o SubSeq(rest, j + 1, Len(rest))

\* the click handler of enableSorting (src/main.js 495-517): sort, renumber
\* the first cell, put the rows back
headerClick(trs, id, minus, asc) ==
    LET sorted == sortByCell(trs, id, minus, asc)
    IN  [i \in 1..Len(sorted) |-> [sorted[i] EXCEPT !.rank = i]]

\* findTables, src/removeGlitchedRacers.js 30-39: a table qualifies when
\* the label of a cell or the text of a header contains "Total Races"
findTables(id) == contains(racesLabel(id), <<"Total", "Races">>)

\* the test of filterTable (src/removeGlitchedRacers.js 82-88) on the cell
\* makeCellGetter resolves, which is the races cell of every table found
exceedsThreshold(id, row, minus) ==
    LET n == parseDelta(cellText(id, row, minus))
    IN  isFinite(n) /\ n.n > THRESHOLD

\* the same test in src/unnamed/part_003 70-73
P3_exceedsThreshold(id, row, minus) ==
    LET n == P3_parseDelta(cellText(id, row, minus))
    IN  isFinite(n) /\ n.n > THRESHOLD

InitRemove ==
    /\ tableId \in Tables
    /\ tbody \in {renderRows(l) : l \in RenderedLists(tableId)}
    /\ thAsc = FALSE
    /\ utility \in {"remove", "remove3"}
    /\ removed = {}
    /\ minusSign \in {"-", MINUS}
    /\ NoParse
    /\ NoHide
    /\ NoJob
    /\ NoEngine

\* a click on the header of the races column
HeaderClick ==
    /\ tableId # "none"
    /\ utility \in {"remove", "remove3"}
    /\ tbody' = headerClick(tbody, tableId, minusSign, ~thAsc)
    /\ thAsc' = ~thAsc
    /\ UNCHANGED <<tableId, utility, removed, minusSign>>
    /\ UNCHANGED <<delta, parser, parsed, hideVars, jobVars, engineVars>>

\* a click on another header of the table, which takes the class asc off
\* the races header (src/main.js 509); the other columns are not modelled,
\* so the rows keep their order
OtherHeaderClick ==
    /\ tableId # "none"
    /\ utility \in {"remove", "remove3"}
    /\ thAsc
    /\ thAsc' = FALSE
    /\ UNCHANGED <<tableId, tbody, utility, removed, minusSign>>
    /\ UNCHANGED <<delta, parser, parsed, hideVars, jobVars, engineVars>>

\* filterTable, src/removeGlitchedRacers.js 67-97: the rows left in the
\* tbody
filterTable(trs, id, minus) ==
    SelectSeq(trs, LAMBDA r : ~exceedsThreshold(id, r, minus))

\* filterTable, src/unnamed/part_003 58-80: the rows left in the tbody
P3_filterTable(trs, id, minus) ==
    SelectSeq(trs, LAMBDA r : ~P3_exceedsThreshold(id, r, minus))

\* the tbody is left with the rows of rest; the values of the rows taken
\* out are remembered
TakeOut(rest) ==
    /\ findTables(tableId)
    /\ tbody' = rest
    /\ removed' = removed \cup ({tbody[i].races : i \in 1..Len(tbody)}
                                   \ {rest[i].races : i \in 1..Len(rest)})
    /\ UNCHANGED <<tableId, thAsc, utility, minusSign>>
    /\ UNCHANGED <<delta, parser, parsed, hideVars, jobVars, engineVars>>

\* filterTable of src/removeGlitchedRacers.js, from applyAll (114-129) or
\* from the observer (103-108)
RunFilterTable ==
    /\ utility = "remove"
    /\ TakeOut(filterTable(tbody, tableId, minusSign))

\* filterTable of src/unnamed/part_003, from applyAll or from the observer
RunP3FilterTable ==
    /\ utility = "remove3"
    /\ TakeOut(P3_filterTable(tbody, tableId, minusSign))

NextRemove ==
    \/ HeaderClick
    \/ OtherHeaderClick
    \/ RunFilterTable
    \/ RunP3FilterTable

SpecRemove == InitRemove /\ [][NextRemove]_vars

---------------------------------------------------------------------------
(* SpecHide: one table of the page and the hiding script of                *)
(* src/unnamed/part_002, from its init on.  init runs on DOMContentLoaded, *)
(* before main.js has any data, so the table is empty then; main.js        *)
(* renders it later.  The callbacks of requestAnimationFrame that are      *)
(* pending run together in the next frame.                                 *)

\* findDeltaColIndex, src/unnamed/part_002 66-84: a cell labelled, or a
\* header reading, exactly CONFIG.deltaHeaderText
P2_findDeltaColIndex(id) == racesLabel(id) = <<"DELTA", "Total", "Races">>

\* shouldHide, src/unnamed/part_002 114-115
P2_shouldHide(id, row, minus, limit) ==
    LET n == P2_parseDelta(cellText(id, row, minus))
    IN  isFinite(n) /\ n.n > limit

\* filterTable, src/unnamed/part_002 96-128: the class glitch-hidden is put
\* on the rows that should hide and taken off the others
P2_filterTable(trs, id, minus, limit) ==
    IF ~P2_findDeltaColIndex(id) THEN trs
    ELSE [i \in 1..Len(trs) |->
             [trs[i] EXCEPT !.hidden = P2_shouldHide(id, trs[i], minus, limit)]]

\* applyAll, src/unnamed/part_002 206-209
P2_applyAll(trs, id, minus, on, limit) ==
    IF ~on THEN trs ELSE P2_filterTable(trs, id, minus, limit)

\* document.querySelectorAll('tbody tr.glitch-hidden').forEach(tr =>
\* tr.classList.remove('glitch-hidden')), src/unnamed/part_002 178, 244
unhideAll(trs) == [i \in 1..Len(trs) |-> [trs[i] EXCEPT !.hidden = FALSE]]

\* document.querySelectorAll('tbody tr.glitch-hidden').length
hiddenCount(trs) == Cardinality({i \in 1..Len(trs) : trs[i].hidden})

\* the numbers typed into the threshold input or passed to setThreshold
ThresholdInputs == {0 - 1, 0, THRESHOLD, THRESHOLD + 1}

\* Number.isFinite(v) && v >= 0
validThreshold(v) == v >= 0

InitHide ==
    /\ tableId \in Tables
    /\ tbody = <<>>
    /\ thAsc = FALSE
    /\ utility = "hide"
    /\ removed = {}
    /\ minusSign \in {"-", MINUS}
    /\ threshold = THRESHOLD
    /\ enabled = TRUE
    /\ counter = 0
    /\ frame = TRUE
    /\ schedFrame = FALSE
    /\ statsTimer = TRUE
    /\ NoParse
    /\ NoJob
    /\ NoEngine

\* main.js renders the table; the observer of a filtered table asks for a
\* frame (src/unnamed/part_002 222-225)
Render ==
    \E l \in RenderedLists(tableId) \ {<<>>} :
        /\ utility = "hide"
        /\ tbody = <<>>
        /\ tbody' = renderRows(l)
        /\ frame' = (frame \/ P2_findDeltaColIndex(tableId))
        /\ UNCHANGED <<tableId, thAsc, utility, removed, minusSign>>
        /\ UNCHANGED <<threshold, enabled, counter, schedFrame, statsTimer>>
        /\ UNCHANGED <<delta, parser, parsed, jobVars, engineVars>>

\* a click on the header of the races column: the rows are put back in
\* sorted order, which the observer sees
HideHeaderClick ==
    /\ utility = "hide"
    /\ tbody # <<>>
    /\ tbody' = headerClick(tbody, tableId, minusSign, ~thAsc)
    /\ thAsc' = ~thAsc
    /\ frame' = (frame \/ P2_findDeltaColIndex(tableId))
    /\ UNCHANGED <<tableId, utility, removed, minusSign>>
    /\ UNCHANGED <<threshold, enabled, counter, schedFrame, statsTimer>>
    /\ UNCHANGED <<delta, parser, parsed, jobVars, engineVars>>

\* the next animation frame: requestAnimationFrame(applyAll) of init (212)
\* and of the observer (224), and the callback of scheduleApply (158-161),
\* which also updates the counter
AnimationFrame ==
    /\ utility = "hide"
    /\ frame \/ schedFrame
    /\ tbody' = P2_applyAll(tbody, tableId, minusSign, enabled, threshold)
    /\ counter' = IF schedFrame THEN hiddenCount(tbody') ELSE counter
    /\ frame' = FALSE
    /\ schedFrame' = FALSE
    /\ UNCHANGED <<tableId, thAsc, utility, removed, minusSign>>
    /\ UNCHANGED <<threshold, enabled, statsTimer>>
    /\ UNCHANGED <<delta, parser, parsed, jobVars, engineVars>>

\* setTimeout(updateStats, 0), src/unnamed/part_002 186
StatsTimer ==
    /\ utility = "hide"
    /\ statsTimer
    /\ statsTimer' = FALSE
    /\ counter' = hiddenCount(tbody)
    /\ UNCHANGED <<domVars, minusSign>>
    /\ UNCHANGED <<threshold, enabled, frame, schedFrame>>
    /\ UNCHANGED <<delta, parser, parsed, jobVars, engineVars>>

\* the change handler of the threshold input, src/unnamed/part_002 164-169,
\* with scheduleApply (155-162)
InputChange ==
    \E v \in ThresholdInputs :
        /\ utility = "hide"
        /\ threshold' = IF validThreshold(v) THEN v ELSE threshold
        /\ schedFrame' = (schedFrame \/ enabled)
        /\ UNCHANGED <<domVars, minusSign>>
        /\ UNCHANGED <<enabled, counter, frame, statsTimer>>
        /\ UNCHANGED <<delta, parser, parsed, jobVars, engineVars>>

\* the click handler of the toggle button, src/unnamed/part_002 171-181
ToggleClick ==
    /\ utility = "hide"
    /\ enabled' = ~enabled
    /\ IF enabled'
       THEN /\ schedFrame' = TRUE
            /\ UNCHANGED <<tbody, counter>>
       ELSE /\ tbody' = unhideAll(tbody)
            /\ counter' = hiddenCount(tbody')
            /\ UNCHANGED schedFrame
    /\ UNCHANGED <<tableId, thAsc, utility, removed, minusSign>>
    /\ UNCHANGED <<threshold, frame, statsTimer>>
    /\ UNCHANGED <<delta, parser, parsed, jobVars, engineVars>>

\* window.GlitchFilter.setThreshold, src/unnamed/part_002 235-240
ApiSetThreshold ==
    \E v \in ThresholdInputs :
        /\ utility = "hide"
        /\ validThreshold(v)
        /\ threshold' = v
        /\ tbody' = P2_applyAll(tbody, tableId, minusSign, enabled, v)
        /\ UNCHANGED <<tableId, thAsc, utility, removed, minusSign>>
        /\ UNCHANGED <<enabled, counter, frame, schedFrame, statsTimer>>
        /\ UNCHANGED <<delta, parser, parsed, jobVars, engineVars>>

\* window.GlitchFilter.enable, src/unnamed/part_002 241
ApiEnable ==
    /\ utility = "hide"
    /\ enabled' = TRUE
    /\ tbody' = P2_applyAll(tbody, tableId, minusSign, TRUE, threshold)
    /\ UNCHANGED <<tableId, thAsc, utility, removed, minusSign>>
    /\ UNCHANGED <<threshold, counter, frame, schedFrame, statsTimer>>
    /\ UNCHANGED <<delta, parser, parsed, jobVars, engineVars>>

\* window.GlitchFilter.disable, src/unnamed/part_002 242-245
ApiDisable ==
    /\ utility = "hide"
    /\ enabled' = FALSE
    /\ tbody' = unhideAll(tbody)
    /\ UNCHANGED <<tableId, thAsc, utility, removed, minusSign>>
    /\ UNCHANGED <<threshold, counter, frame, schedFrame, statsTimer>>
    /\ UNCHANGED <<delta, parser, parsed, jobVars, engineVars>>

NextHide ==
    \/ Render
    \/ HideHeaderClick
    \/ AnimationFrame
    \/ StatsTimer
    \/ InputChange
    \/ ToggleClick
    \/ ApiSetThreshold
    \/ ApiEnable
    \/ ApiDisable

SpecHide == InitHide /\ [][NextHide]_vars

---------------------------------------------------------------------------
(* SpecJob: the daily rotation job of src/unnamed/part_001 and the two     *)
(* files it keeps.  A file is <<>> while it does not exist and <<c>> while *)
(* it holds the content c; the content written by the n-th run is n + 1,   *)
(* the contents present before the first run are 0 and 1.  backupAndFetch  *)
(* is cut at its await of fetch.                                           *)

\* fs.rename(prevPath, oldPath).catch(() => {}), src/unnamed/part_001 30:
\* the current file replaces the previous one, and a missing current file
\* is no error
rename(f) == IF f.cur = <<>> THEN f ELSE [cur |-> <<>>, prev |-> f.cur]

\* the ways a run fails after the rename: fetch rejects (33), the status
\* is not OK (34), the payload is no array (36-38)
Failures == {"rejected", "status", "payload"}

InitJob ==
    /\ files \in [cur : {<<>>, <<1>>}, prev : {<<>>, <<0>>}]
    /\ filesAtStart = files
    /\ jobPc = "idle"
    /\ lastRun = "none"
    /\ runs = 0
    /\ minusSign = "-"
    /\ NoParse
    /\ NoDom
    /\ NoHide
    /\ NoEngine

\* the cron tick (60-65) and backupAndFetch up to the await of fetch
StartRun ==
    /\ jobPc = "idle"
    /\ runs < MaxRuns
    /\ runs' = runs + 1
    /\ filesAtStart' = files
    /\ files' = rename(files)
    /\ jobPc' = "fetching"
    /\ UNCHANGED lastRun
    /\ UNCHANGED <<parseVars, domVars, hideVars, engineVars>>

\* the run ends in the catch of lines 54-56, which only logs
FetchFails ==
    \E kind \in Failures :
        /\ jobPc = "fetching"
        /\ jobPc' = "idle"
        /\ lastRun' = kind
        /\ UNCHANGED <<files, filesAtStart, runs>>
        /\ UNCHANGED <<parseVars, domVars, hideVars, engineVars>>

\* an array arrives and sample_data.json is written (40-53)
FetchSucceeds ==
    /\ jobPc = "fetching"
    /\ jobPc' = "idle"
    /\ lastRun' = "ok"
    /\ files' = [files EXCEPT !.cur = <<runs + 1>>]
    /\ UNCHANGED <<filesAtStart, runs>>
    /\ UNCHANGED <<parseVars, domVars, hideVars, engineVars>>

NextJob ==
    \/ StartRun
    \/ FetchFails
    \/ FetchSucceeds

SpecJob == InitJob /\ [][NextJob]_vars

---------------------------------------------------------------------------
(* Vocabulary of the properties.  It reads the snapshots directly, not      *)
(* through the indexes the handlers build.                                  *)

EventVariants == {"computeEvent", "loadEventFourFiles", "loadEventFourFilesP0"}
DailyVariants == {"renderChanges24_fromAPI", "renderChanges24"}

EventDone == pc = "done" /\ variant \in EventVariants

\* the value of a numeric field, a missing one counting as 0
Val(x) == IF x.t = "num" THEN x.v ELSE 0

\* the identifier k occurs in the snapshot
InSnap(arr, k) == \E i \in 1..Len(arr) : toLowerCase(arr[i].username) = k

\* the record of identifier k in the snapshot (the last one bearing it)
RecOf(arr, k) ==
    arr[CHOOSE i \in 1..Len(arr) :
            /\ toLowerCase(arr[i].username) = k
            /\ \A j \in (i + 1)..Len(arr) : toLowerCase(arr[j].username) # k]

\* the non-empty identifiers of a snapshot
Idents(arr) == {toLowerCase(arr[i].username) : i \in 1..Len(arr)} \ {""}

\* the identifier a row belongs to
RowKey(r) == toLowerCase(r.slug)

HasLean(k) == InSnap(apiBefore, k) /\ InSnap(apiNow, k)
HasRich(k) == InSnap(dataBefore, k) /\ InSnap(dataNow, k)

LeanDiff(k) == Val(RecOf(apiNow, k).lifetimeRaces) - Val(RecOf(apiBefore, k).lifetimeRaces)
RichDiff(k) == Val(RecOf(dataNow, k).racesPlayed) - Val(RecOf(dataBefore, k).racesPlayed)
TypedDiff(k) == Val(RecOf(apiNow, k).typed) - Val(RecOf(apiBefore, k).typed)
ErrsDiff(k) == Val(RecOf(apiNow, k).errs) - Val(RecOf(apiBefore, k).errs)
PlayedDiff(k) == Val(RecOf(apiNow, k).played) - Val(RecOf(apiBefore, k).played)
NitroDiff(k) == Val(RecOf(dataNow, k).nitrosUsed) - Val(RecOf(dataBefore, k).nitrosUsed)

\* now.avgWpm * now.played - before.avgWpm * before.played
WeightedSum(k) ==
    Val(RecOf(apiNow, k).avgWpm) * Val(RecOf(apiNow, k).played)
        - Val(RecOf(apiBefore, k).avgWpm) * Val(RecOf(apiBefore, k).played)

\* how often the callback ran for identifier k
Visits(k) == Cardinality({i \in 1..Len(visited) : visited[i].key = k})

\* how many rows identifier k has
RowsOf(k) == Cardinality({i \in 1..Len(rows) : RowKey(rows[i]) = k})

---------------------------------------------------------------------------
(* C1 *)

\* C1: in every four-source variant each output row has a race delta > 0,
\* and an identifier whose computed race delta is 0 or negative has no row.
C1_RowsHavePositiveDelta ==
    EventDone =>
        /\ \A i \in 1..Len(rows) : rows[i].dRaces > 0
        /\ \A j \in 1..Len(visited) : visited[j].dRaces <= 0 => RowsOf(visited[j].key) = 0

\* C1 witness: a finished run that kept one identifier and dropped another
\* whose delta was negative.
C1_Witness ==
    /\ EventDone
    /\ Len(rows) >= 1
    /\ \E j \in 1..Len(visited) : visited[j].dRaces < 0

---------------------------------------------------------------------------
(* C2 *)

\* the race delta the rule of C2 gives identifier k
C2_Expected(k) ==
    IF HasRich(k) /\ RichDiff(k) # 0 THEN RichDiff(k)
    ELSE IF HasLean(k) THEN LeanDiff(k)
    ELSE 0

\* C2: for every identifier the race delta is the rich-feed difference when
\* both rich records exist and it is non-zero, otherwise the lean-feed
\* difference when both lean records exist, otherwise 0; a record present in
\* only one snapshot of a feed contributes nothing.
C2_RaceDeltaRule ==
    EventDone =>
        \A j \in 1..Len(visited) : visited[j].dRaces = C2_Expected(visited[j].key)

---------------------------------------------------------------------------
(* C3 *)

\* C3 as stated: with both lean records and playedDelta > 0 the speed of the
\* row is (now.avgWpm * now.played - before.avgWpm * before.played) / playedDelta.
C3_WeightedSpeedAlways ==
    EventDone =>
        \A i \in 1..Len(rows) :
            LET k == RowKey(rows[i])
            IN  (HasLean(k) /\ PlayedDiff(k) > 0)
                    => rows[i].wpm = Mk(WeightedSum(k), PlayedDiff(k))

\* C3 amended: the same, for a weighted result that is not negative.
C3_WeightedSpeedWhenNonNegative ==
    EventDone =>
        \A i \in 1..Len(rows) :
            LET k == RowKey(rows[i])
            IN  (HasLean(k) /\ PlayedDiff(k) > 0 /\ WeightedSum(k) >= 0)
                    => rows[i].wpm = Mk(WeightedSum(k), PlayedDiff(k))

\* C3 witness: the worked example, 80 over 10 races then 100 over 30 races,
\* gives playedDelta 20 and speed 110.
C3_Witness ==
    /\ EventDone
    /\ \E i \in 1..Len(rows) :
           /\ HasLean(RowKey(rows[i]))
           /\ PlayedDiff(RowKey(rows[i])) = 20
           /\ WeightedSum(RowKey(rows[i])) = 2200
           /\ rows[i].wpm = RInt(110)

---------------------------------------------------------------------------
(* C4 *)

C4_CharsEstimate(typedDelta, dRaces) ==
    Mk(typedDelta * 6000, 5 * AVG_RACE_CENTISECONDS * dRaces)

---------------------------------------------------------------------------
(* C5 *)

\* 100 * (1 - e / t) clamped into [0, 100], for t > 0
C5_Expected(t, e) ==
    IF e >= t THEN RInt(0)
    ELSE IF e <= 0 THEN RInt(100)
    ELSE Mk(100 * (t - e), t)

\* C5: with typedDelta = max(0, now.typed - before.typed) and errsDelta =
\* max(0, now.errs - before.errs), a row with typedDelta > 0 has accuracy
\* 100 * (1 - errsDelta / typedDelta) clamped into [0, 100]; every accuracy
\* that is emitted lies in [0, 100].
C5_AccuracyFormula ==
    EventDone =>
        \A i \in 1..Len(rows) :
            LET k == RowKey(rows[i])
                typedDelta == IF TypedDiff(k) > 0 THEN TypedDiff(k) ELSE 0
                errsDelta  == IF ErrsDiff(k) > 0 THEN ErrsDiff(k) ELSE 0
            IN  /\ (HasLean(k) /\ typedDelta > 0)
                       => rows[i].acc = C5_Expected(typedDelta, errsDelta)
                /\ rows[i].acc # Null
                       => /\ rows[i].acc.n >= 0
                          /\ rows[i].acc.n <= 100 * rows[i].acc.d

\* C5 witness: 1000 characters typed with 50 errors give 95.
C5_Witness ==
    /\ EventDone
    /\ \E i \in 1..Len(rows) :
           /\ HasLean(RowKey(rows[i]))
           /\ TypedDiff(RowKey(rows[i])) = 1000
           /\ ErrsDiff(RowKey(rows[i])) = 50
           /\ rows[i].acc = RInt(95)

---------------------------------------------------------------------------
(* C6 *)

\* the typed-characters difference of identifier k, a missing lean record
\* counting as a record without fields
C6_TypedDiff(k) ==
    Val((IF InSnap(apiNow, k) THEN RecOf(apiNow, k) ELSE EmptyLean).typed)
        - Val((IF InSnap(apiBefore, k) THEN RecOf(apiBefore, k) ELSE EmptyLean).typed)

\* C6: in every variant a row whose typedDelta is 0 (nothing typed in the
\* period, or no lean record to read it from) has the no-signal accuracy,
\* null or 0, never a positive percentage.
C6_NoSignalAccuracy ==
    EventDone =>
        \A i \in 1..Len(rows) :
            C6_TypedDiff(RowKey(rows[i])) <= 0
                => (rows[i].acc = Null \/ rows[i].acc = RInt(0))

---------------------------------------------------------------------------
(* C7 *)

\* 100 + (speed / 2) * (accuracy / 100)
C7_Score(wpm, acc) ==
    Mk(100 * 200 * wpm.d * acc.d + wpm.n * acc.n, 200 * wpm.d * acc.d)

\* C7: in computeEvent a row has a score exactly when it has both a speed
\* and an accuracy, and the score is then 100 + (speed / 2) * (accuracy / 100).
C7_ScoreIffSpeedAndAccuracy ==
    (pc = "done" /\ variant = "computeEvent") =>
        \A i \in 1..Len(rows) :
            /\ (rows[i].points # Null) <=> (rows[i].wpm # Null /\ rows[i].acc # Null)
            /\ rows[i].points # Null => rows[i].points = C7_Score(rows[i].wpm, rows[i].acc)

\* C7 witness: speed 110 and accuracy 95 give 152.25, and in the same run of
\* the model a row without accuracy has no score.
C7_Witness ==
    /\ pc = "done" /\ variant = "computeEvent"
    /\ \E i \in 1..Len(rows) :
           /\ rows[i].wpm = RInt(110)
           /\ rows[i].acc = RInt(95)
           /\ rows[i].points = Mk(15225, 100)

---------------------------------------------------------------------------
(* C8 *)

\* C8: in computeEvent the nitro-use delta of a row is
\* max(0, now.nitrosUsed - before.nitrosUsed) when both rich records exist
\* and null otherwise; it is never negative.
C8_NitroDelta ==
    (pc = "done" /\ variant = "computeEvent") =>
        \A i \in 1..Len(rows) :
            LET k == RowKey(rows[i])
            IN  /\ HasRich(k) =>
                       rows[i].nitrosDelta = RInt(IF NitroDiff(k) > 0 THEN NitroDiff(k) ELSE 0)
                /\ ~HasRich(k) => rows[i].nitrosDelta = Null
                /\ rows[i].nitrosDelta # Null => rows[i].nitrosDelta.n >= 0

\* C8 witness: a row whose nitro counter dropped, so the delta is floored at 0.
C8_Witness ==
    /\ pc = "done" /\ variant = "computeEvent"
    /\ \E i \in 1..Len(rows) :
           /\ HasRich(RowKey(rows[i]))
           /\ NitroDiff(RowKey(rows[i])) < 0
           /\ rows[i].nitrosDelta = RInt(0)

---------------------------------------------------------------------------
(* C9 *)

AllIdents ==
    Idents(apiBefore) \cup Idents(apiNow) \cup Idents(dataBefore) \cup Idents(dataNow)

---------------------------------------------------------------------------
(* C10 *)

\* the snapshots the daily diff compares
DailyBefore == IF variant = "renderChanges24_fromAPI" THEN apiBefore ELSE dataBefore
DailyNow == IF variant = "renderChanges24_fromAPI" THEN apiNow ELSE dataNow

\* C10: in the daily diff every identifier of the before or the now snapshot
\* is visited exactly once, and no identifier has more than one row.
C10_DailyEveryIdentifierOnce ==
    (pc = "done" /\ variant \in DailyVariants) =>
        \A k \in Idents(DailyBefore) \cup Idents(DailyNow) :
            /\ Visits(k) = 1
            /\ RowsOf(k) <= 1

---------------------------------------------------------------------------
(* C11 *)

DailyDone == pc = "done" /\ variant \in DailyVariants

\* the race count of identifier k in a daily snapshot, 0 when k is not in it
DailyCount(arr, k) ==
    IF ~InSnap(arr, k) THEN 0
    ELSE IF variant = "renderChanges24_fromAPI"
         THEN Val(RecOf(arr, k).lifetimeRaces)
         ELSE Val(RecOf(arr, k).racesPlayed)

\* now minus before
DailyDiff(k) == DailyCount(DailyNow, k) - DailyCount(DailyBefore, k)

---------------------------------------------------------------------------
(* C12 *)

\* C12: in the daily diff every row has a race delta > 0; an identifier
\* whose delta is zero or negative (its count dropped, or it is missing from
\* the now snapshot) has no row.
C12_DailyRowsPositive ==
    DailyDone =>
        /\ \A i \in 1..Len(rows) : rows[i].dRaces > 0
        /\ \A k \in Idents(DailyBefore) \cup Idents(DailyNow) :
              DailyDiff(k) <= 0 =>
                  ~\E i \in 1..Len(rows) :
                      RowKey(rows[i]) = k /\ rows[i].dRaces = DailyDiff(k)

---------------------------------------------------------------------------
(* C13 *)

\* C13: the rows of the event computation and of the daily diff are in
\* non-increasing order of race delta.
C13_RowsSortedByDelta ==
    pc = "done" =>
        \A i \in 1..(Len(rows) - 1) : rows[i].dRaces >= rows[i + 1].dRaces

\* C13 witness: two rows whose callbacks ran in ascending order of delta.
C13_Witness ==
    /\ pc = "done"
    /\ Len(rows) = 2
    /\ Len(visited) = 2
    /\ visited[1].dRaces < visited[2].dRaces
    /\ visited[1].dRaces > 0
    /\ rows[1].dRaces = visited[2].dRaces
    /\ rows[2].dRaces = visited[1].dRaces

---------------------------------------------------------------------------
(* C14 *)

Fetched == pc = "fetched"

\* the trimmed non-blank lines of the body, read off the response
BodyLines ==
    LET Kept(l) == l \notin {"", LineBlank}
        Trimmed(l) == IF l = LineB THEN LineBTrim ELSE l
        kept == SelectSeq(response.lines, Kept)
    IN  [i \in 1..Len(kept) |-> Trimmed(kept[i])]

\* the body was served: status 200 and no network error
Served == response.net = "ok" /\ response.status = 200

\* newline-delimited JSON: at least one line, every line one entity object
\* or malformed, and at least one line well formed
IsNdjson ==
    /\ Served
    /\ BodyLines # <<>>
    /\ \A i \in 1..Len(BodyLines) : BodyLines[i] \in {LineA, LineBTrim, LineCut, LineBad}
    /\ \E i \in 1..Len(BodyLines) : BodyLines[i] \in {LineA, LineBTrim}

\* the records of the well-formed lines, in line order
C14_Records ==
    LET Good(l) == l \in {LineA, LineBTrim}
        good == SelectSeq(BodyLines, Good)
    IN  [i \in 1..Len(good) |-> IF good[i] = LineA THEN RecA ELSE RecB]

\* C14: for a newline-delimited body the load succeeds and toArray of the
\* result is exactly the records of the lines that parse, in line order;
\* this for both fetchers, a one-line body and a body starting with '{'
\* included.
C14_NdjsonRecordsInOrder ==
    (Fetched /\ IsNdjson) =>
        /\ payload.state = "fulfilled"
        /\ loaded = C14_Records

---------------------------------------------------------------------------
(* C15 *)

\* the response was read and its content is empty or white space only
ContentEmpty ==
    /\ response.net = "ok"
    /\ response.status \in {200, 204}
    /\ BodyLines = <<>>

\* C15: on empty content fetchJSONFlexible returns { racers: [] } when
\* allowEmpty is true and rejects when it is false.
C15_EmptyContent ==
    (Fetched /\ ContentEmpty) =>
        IF allowEmpty THEN payload = Fulfilled(EmptySnapshot)
        ELSE payload.state = "rejected"

---------------------------------------------------------------------------
(* C16 *)

\* non-empty content of which no line parses (and which is then no single
\* document either)
NothingParses ==
    /\ Served
    /\ BodyLines # <<>>
    /\ \A i \in 1..Len(BodyLines) : BodyLines[i] \in {LineCut, LineBad}

\* C16: when non-empty content parses neither as one document nor on any
\* line, fetchJSONFlexible rejects if allowEmpty is false and returns an
\* empty snapshot if it is true.
C16_AllMalformed ==
    (Fetched /\ NothingParses) =>
        IF allowEmpty THEN payload.state = "fulfilled" /\ loaded = <<>>
        ELSE payload.state = "rejected"

---------------------------------------------------------------------------
(* C17 *)

\* the source is unreachable, or answers 404, 204 or a server error
Unloadable ==
    \/ response.net = "error"
    \/ response.status \in {404, 204, 500}

\* C17: with allowEmpty true fetchJSONFlexible never rejects, and an
\* unloadable source gives { racers: [] }; with allowEmpty false an
\* unloadable source makes the call reject.
C17_MissingSource ==
    Fetched =>
        /\ allowEmpty => payload.state = "fulfilled"
        /\ Unloadable =>
              IF allowEmpty THEN payload = Fulfilled(EmptySnapshot)
              ELSE payload.state = "rejected"

---------------------------------------------------------------------------
(* C18 *)

\* the index of a snapshot has exactly its non-empty lower-cased usernames
\* as keys, each mapped to the last record bearing it
C18_Indexed(arr) ==
    LET idx == indexByKey(arr)
    IN  /\ DOMAIN idx.at = Idents(arr)
        /\ \A k \in Idents(arr) : idx.at[k] = RecOf(arr, k)

\* C18: indexByKey maps exactly the lower-cased non-empty usernames of the
\* list, each to the last record bearing it; records without a username are
\* left out.  Consequently computeEvent pairs the lean records of one
\* identifier across the snapshots whatever their case: without rich
\* records its row carries the difference of the last records.
C18_IndexByKey ==
    (pc = "done" /\ variant = "computeEvent") =>
        /\ C18_Indexed(apiBefore)
        /\ C18_Indexed(apiNow)
        /\ C18_Indexed(dataBefore)
        /\ C18_Indexed(dataNow)
        /\ \A k \in Idents(apiBefore) \cap Idents(apiNow) :
              (~InSnap(dataBefore, k) /\ ~InSnap(dataNow, k) /\ LeanDiff(k) > 0) =>
                  \E i \in 1..Len(rows) :
                      RowKey(rows[i]) = k /\ rows[i].dRaces = LeanDiff(k)

\* C18 witness: "a" in the before snapshot, "a" and then "A" in the now
\* snapshot, and the row carries the count of "A" minus the count of "a".
C18_Witness ==
    /\ pc = "done"
    /\ variant = "computeEvent"
    /\ Len(apiBefore) = 1
    /\ apiBefore[1].username = "a"
    /\ Len(apiNow) = 2
    /\ apiNow[1].username = "a"
    /\ apiNow[2].username = "A"
    /\ Val(apiNow[2].lifetimeRaces) > Val(apiNow[1].lifetimeRaces)
    /\ Len(rows) = 1
    /\ rows[1].dRaces = Val(apiNow[2].lifetimeRaces) - Val(apiBefore[1].lifetimeRaces)

---------------------------------------------------------------------------
(* C19 *)

\* a computed value is a finite number or the absent marker null
FiniteOrAbsent(x) == x.t \in {"num", "null"}

\* some numeric field of some record is missing, null or not numeric
SomeFieldDirty ==
    \/ \E i \in 1..Len(apiNow) :
          \E x \in {apiNow[i].lifetimeRaces, apiNow[i].typed, apiNow[i].errs,
                     apiNow[i].played, apiNow[i].avgWpm} : x.t # "num"
    \/ \E i \in 1..Len(dataNow) :
          \E x \in {dataNow[i].racesPlayed, dataNow[i].nitrosUsed,
                     joinDateOf(dataNow[i])} : x.t \notin {"num", "date"}

---------------------------------------------------------------------------
(* C20 *)

\* the field of identifier k's record in a snapshot, "" when there is none
C20_Field(arr, k, field) == IF InSnap(arr, k) THEN RecOf(arr, k)[field] ELSE ""

\* the first of the candidates that is not blank, else the fallback
C20_First(cands, fallback) ==
    LET filled == {i \in 1..Len(cands) : cands[i] \notin {"", " "}}
    IN  IF filled = {} THEN fallback
        ELSE cands[CHOOSE i \in filled : \A j \in filled : i <= j]

C20_Identifier(k) ==
    C20_First(<<C20_Field(dataNow, k, "username"), C20_Field(dataBefore, k, "username"),
                C20_Field(apiNow, k, "username"), C20_Field(apiBefore, k, "username")>>, k)

C20_Label(k) ==
    C20_First(<<C20_Field(apiNow, k, "displayName"),
                C20_Field(apiBefore, k, "displayName")>>, C20_Identifier(k))

\* C20: in computeEvent a row's identifier is the first non-blank username
\* of the rich-now, rich-before, lean-now and lean-before records, and its
\* label the first non-blank displayName of the lean-now and lean-before
\* records, or the identifier when neither has one.
C20_IdentifierAndLabel ==
    (pc = "done" /\ variant = "computeEvent") =>
        \A i \in 1..Len(rows) :
            /\ rows[i].slug = C20_Identifier(RowKey(rows[i]))
            /\ rows[i].displayName = C20_Label(RowKey(rows[i]))

\* C20 witness: no rich-now record, the rich-before record spelled "A", the
\* lean-now record spelled "a" with a blank display name, the lean-before
\* record named "Bob": the row is "A", labelled "Bob".
C20_Witness ==
    /\ pc = "done"
    /\ variant = "computeEvent"
    /\ dataNow = <<>>
    /\ Len(dataBefore) = 1 /\ dataBefore[1].username = "A"
    /\ Len(apiNow) = 1 /\ apiNow[1].username = "a" /\ apiNow[1].displayName = " "
    /\ Len(apiBefore) = 1 /\ apiBefore[1].displayName = "Bob"
    /\ Len(rows) = 1
    /\ rows[1].slug = "A"
    /\ rows[1].displayName = "Bob"

---------------------------------------------------------------------------
(* C21 *)

---------------------------------------------------------------------------
(* C22 *)

\* C22: no rendering or diff stage changes a loaded snapshot; after every
\* stage each of the four record lists holds the same records, in the same
\* order and with the same field values, as right after the load.
C22_SnapshotsNeverMutated ==
    [][UNCHANGED <<apiBefore, apiNow, dataBefore, dataNow>>]_vars

---------------------------------------------------------------------------
(* C23 *)

\* C23: initEventTab starts its four fetches together and computes only
\* after all four have settled; whatever the order of the answers, the rows
\* rendered are those of the four settled values, never of a partial set.
C23_EventWaitsForAllFour ==
    /\ eventPc = "waiting" =>
           \A s \in EventSlots : fetches[s].state \in {"pending", "fulfilled", "rejected"}
    /\ eventPc = "rendered" =>
           /\ \A s \in EventSlots : fetches[s].state = "fulfilled"
           /\ rows = EventRows(fetches)

\* C23 witness: rows were rendered from four arrived snapshots.
C23_Witness ==
    /\ eventPc = "rendered"
    /\ \A s \in EventSlots : fetches[s] = Arrived(FileOf(s))
    /\ Len(rows) > 0

---------------------------------------------------------------------------
(* C24 *)

\* C24: on every bootstrap initEventTab is eventually called, and never
\* more than once: after the main tables when the main flow succeeds, and
\* from the catch when loading or rendering the main snapshot fails.
C24_EventStartedOnce ==
    /\ [](eventStarts <= 1)
    /\ [](eventStarts = 1 => mainPc \in {"finished", "caught"})
    /\ <>(eventStarts = 1)

\* C24 witness: the main snapshot of the second handler failed to load and
\* the event table was rendered all the same.
C24_Witness ==
    /\ script = "bootstrap"
    /\ fetches["cur"].state = "rejected"
    /\ mainPc = "caught"
    /\ eventStarts = 1
    /\ eventPc = "rendered"

---------------------------------------------------------------------------
(* C27 *)

\* C27: parseDelta returns the signed integer a formatted delta cell shows:
\* "+36,099" gives 36099, and a negative delta gives a negative number
\* whether its minus sign is "-" or U+2212.
C27_ParseDeltaSigned ==
    parser # "none" => parsed = RInt(delta)

---------------------------------------------------------------------------
(* C25 *)

\* C25: removeGlitchedRacers.js removes a row only when its delta of total
\* races is above 2600; rows of a table without that column (the lifetime
\* leaderboard) and rows with a delta of at most 2600 are never removed.
C25_OnlyGlitchedDeltaRowsRemoved ==
    utility = "remove" =>
        \A v \in removed :
            /\ racesLabel(tableId) = <<"DELTA", "Total", "Races">>
            /\ v > THRESHOLD

---------------------------------------------------------------------------
(* C30 *)

\* C30: in every rendered table the Rank column shows 1..n in displayed row
\* order, after any sequence of render, header-click sorts and removals.
C30_RanksConsecutive ==
    utility = "remove" => \A i \in 1..Len(tbody) : tbody[i].rank = i

---------------------------------------------------------------------------
(* C26 *)

\* C26: in the hiding script, once every scheduled apply has run, a row of
\* a filtered table is hidden exactly when the filter is enabled and the
\* row's delta of total races is above the current threshold.
C26_HiddenIffExceeds ==
    (utility = "hide" /\ ~frame /\ ~schedFrame /\ P2_findDeltaColIndex(tableId)) =>
        \A i \in 1..Len(tbody) :
            tbody[i].hidden <=> (enabled /\ tbody[i].races > threshold)

---------------------------------------------------------------------------
(* C28 *)

\* C28: in the hiding script, whenever no apply and no stats update is
\* pending, the Hidden counter equals the number of rows that are hidden.
C28_CounterMatchesHidden ==
    (utility = "hide" /\ ~frame /\ ~schedFrame /\ ~statsTimer) =>
        counter = hiddenCount(tbody)

---------------------------------------------------------------------------
(* C29 *)

\* C29: after a run of backupAndFetch that failed, the two data files are
\* as they were before the run (sample_data.json still exists with its
\* previous content).
C29_FailedRunLeavesFiles ==
    (jobPc = "idle" /\ lastRun \in Failures) => files = filesAtStart

====
